---- MODULE Spec2Model ----
(***************************************************************************)
(* FoxControl serial server: the device controller (fox::Server) with its  *)
(* command queue, its mutation operations, its console commands, its       *)
(* transmit loop and its receive loop.                                     *)
(*                                                                         *)
(* Specifications:                                                         *)
(*   Spec    the mutation operations, the console commands and the         *)
(*           transmit loop, each call or loop iteration one step;          *)
(*   SpecRx  the receive loop, one try_read per step, fed by a device that *)
(*           emits lines byte by byte, with read timeouts in between;      *)
(*   SpecDev the mutation operations together with whole feedback lines    *)
(*           and the accepts_commands() predicate.                         *)
(*   SpecConc the mutation operations, the exit and power commands and the *)
(*           transmit loop, one atomic access or critical section per      *)
(*           step, two calling threads interleaved with tx_loop;           *)
(*   SpecGw  the gateway's poll thread (fox::Gateway), one request, task   *)
(*           or sleep per step, against every answer of the remote end.    *)
(*   SpecSess the session password under its shared_mutex: create_session, *)
(*           reset_session and get_session_password, one lock operation    *)
(*           or store per step;                                            *)
(*   SpecReq the poll thread's requests with reset_session in between;     *)
(*   SpecStop the four worker loops and the destructors, with weak         *)
(*           fairness of every thread that can take a step;                *)
(*   SpecLive the controller with a device that answers every command,     *)
(*           with weak fairness of the transmit and receive iterations;    *)
(*   SpecOwn the writers of the device state side by side;                 *)
(*   SpecFair SpecConc without exit, with weak fairness of tx_loop;        *)
(*   SpecRace set_speed called from the poll thread and from the           *)
(*           console's higher and lower, one atomic access per step;       *)
(*   SpecSnap broadcast_state one atomic load per step, interleaved with   *)
(*           the receive loop and the mutation operations;                 *)
(*   SpecIn  Spec with the targets of set_speed in [0, 32];                *)
(*   SpecCon the console commands alone, with the transmit loop;           *)
(*   SpecExit the poll thread beside the console's exit command, the       *)
(*           gateway destroyed once the server's running flag is clear.    *)
(***************************************************************************)
EXTENDS Integers, Sequences, FiniteSets, TLC

\* ------------------------------------------------------------ constants

MESSAGE_ON == "i"
MESSAGE_OFF == "o"
MESSAGE_MODE == "m"
MESSAGE_LOWER == "l"
MESSAGE_HIGHER == "h"

MAX_SPEED == 32
MIN_SPEED == 0

\* dto::Mode: DEFAULT is the value-initialised enumerator; a remote Mode task
\* may carry another enumerator.
MODE_DEFAULT == "DEFAULT"
MODE_OTHER == "OTHER"
Modes == {MODE_DEFAULT, MODE_OTHER}

\* ------------------------------------------------------------ bounds

\* set_speed takes any kstd::i32: the arguments tried reach ArgSlack beyond
\* [MIN_SPEED, MAX_SPEED] on both sides.
ArgSlack == 1
SpeedArgs == (MIN_SPEED - ArgSlack)..(MAX_SPEED + ArgSlack)

\* A mutation operation is issued when the queue is drained, or when the
\* queue after it holds at most MaxBacklog commands (the queue itself is
\* unbounded in the code).
MaxBacklog == 3

\* target_speed is followed TargetSlack beyond [MIN_SPEED, MAX_SPEED]: the
\* console's lower and higher step it without limit once it is out of range.
TargetSlack == 2
TargetRange == (MIN_SPEED - TargetSlack)..(MAX_SPEED + TargetSlack)

\* actual_speed is followed ActualSlack beyond [MIN_SPEED, MAX_SPEED].
ActualSlack == 2
ActualRange == (MIN_SPEED - ActualSlack)..(MAX_SPEED + ActualSlack)

\* ------------------------------------------------------------ bytes

LF == "LF"
CR == "CR"
NUL == "NUL"

POWER_ON == <<"p", "o", "w", "e", "r", "_", "o", "n">>
POWER_OFF == <<"p", "o", "w", "e", "r", "_", "o", "f", "f">>
SPEED_UP == <<"s", "p", "e", "e", "d", "_", "u", "p">>
SPEED_DOWN == <<"s", "p", "e", "e", "d", "_", "d", "o", "w", "n">>
GARBAGE == <<"g", "a", "r", "b", "a", "g", "e">>

Tokens == {POWER_ON, POWER_OFF, SPEED_UP, SPEED_DOWN}

\* ------------------------------------------------------------ state

VARIABLES
    is_on,          \* _device_state.is_on
    mode,           \* _device_state.mode
    target_speed,   \* _device_state.target_speed
    actual_speed,   \* _device_state.actual_speed
    is_running,     \* Server::_is_running
    message_queue,  \* Server::_message_queue
    buffer,         \* rx_loop's local buffer
    wire,           \* bytes the device has emitted and the host has not read
    line_read,      \* history: the bytes read since the last line feed
    last,           \* history: the last mutation operation or console command
    rx_ev,          \* history: the last completed receive-loop iteration
    ret,            \* history: the last accepts_commands() result
    thr,            \* per calling thread: its place in the running operation
    lock,           \* owner of Server::_queue_mutex across steps, or "none"
    tx,             \* tx_loop: its place, is_busy and message
    hist,           \* history: pushes, write attempts, and what they found
    gw,             \* Gateway::update_loop: its place and the fetched tasks
    gw_running,     \* Gateway::_is_running
    session_password, \* Gateway::_session_password
    reqs,           \* history: the requests the gateway has posted
    sess,           \* the session password's lock, its writers and its reader
    loops,          \* rx_loop's and command_loop's place
    win             \* history: the last window of overlapping set_speed calls

conc_vars == <<thr, lock, tx, hist>>

gw_vars == <<gw, gw_running, session_password, reqs>>

aux_vars == <<sess, loops, win>>

vars == <<is_on, mode, target_speed, actual_speed, is_running, message_queue,
          buffer, wire, line_read, last, rx_ev, ret, conc_vars, gw_vars,
          aux_vars>>

NoOp == [op |-> "none", arg |-> 0, pre_on |-> FALSE, pre_target |-> 0,
         pre_mode |-> MODE_DEFAULT, pushed |-> <<>>]

NoRx == [term |-> "none", buf |-> <<>>, line |-> <<>>, logged |-> FALSE,
         msg |-> <<>>, before |-> 0]

NoRet == [called |-> FALSE, val |-> FALSE, pre |-> <<>>]

\* The threads that call the controller: the gateway's poll thread and the
\* console's command thread.
Threads == {"gw", "con"}

\* A thread between two operations, its locals cleared.
IdleThr == [pc |-> "idle", x |-> FALSE, speed |-> 0, m |-> MODE_DEFAULT,
            n |-> 0, dir |-> MESSAGE_HIGHER, cont |-> "idle", calls |-> 0]

\* tx_loop about to test _is_running.
IdleTx == [pc |-> "top", message |-> MESSAGE_ON]

\* No write attempted yet.
NoTxEv == [written |-> FALSE, ok |-> TRUE, msg |-> MESSAGE_ON, kept |-> TRUE]

\* pushed: every command pushed, in the order the mutex serialised the pushes;
\* attempted: every byte handed to SerialConnection::write, in order;
\* mode_off_write: mode was stored at a moment when is_on was false;
\* exit_saw_on, exit_off, exit_stored, off_before_stop: what the exit command
\* read, the place of its OFF in pushed, and whether push and store preceded
\* the clearing of _is_running; tx_ev: the last write attempt.
NoHist == [pushed |-> <<>>, attempted |-> <<>>, mode_off_write |-> FALSE,
           exit_saw_on |-> FALSE, exit_off |-> 0, exit_stored |-> FALSE,
           off_before_stop |-> TRUE, tx_ev |-> NoTxEv]

\* std::string's default: the empty session password.
NO_PASSWORD == ""

\* A response body as nlohmann::json::parse sees it: json is false when parse
\* throws; keys are the members of an object; tasks_array and password_string
\* tell whether the member has the type the code converts it to.
JsonBody(json, object, keys, tasks_array, tasks, password_string, password) ==
    [json |-> json, object |-> object, keys |-> keys,
     tasks_array |-> tasks_array, tasks |-> tasks,
     password_string |-> password_string, password |-> password]

NOT_JSON == JsonBody(FALSE, FALSE, {}, FALSE, <<>>, FALSE, NO_PASSWORD)

\* httplib::Result without a response (connection failure, timeout).
NoResponse == [present |-> FALSE, status |-> 0, body |-> NOT_JSON]

\* The value-initialised device state, and its snapshot.
NoDevice == [is_on |-> FALSE, mode |-> MODE_DEFAULT, target_speed |-> 0,
             actual_speed |-> 0]

NoSnapshot == [is_on |-> FALSE, accepts_commands |-> TRUE, target_speed |-> 0,
               actual_speed |-> 0, mode |-> MODE_DEFAULT]

\* The current poll cycle: the response to its /fetch, the device state the
\* fetch found, what the thread did since, in order, and the snapshot posted.
NoCycle == [fetched |-> FALSE, response |-> NoResponse, pre |-> NoDevice,
            trace |-> <<>>, snap |-> NoSnapshot]

\* update_loop before its first request; session_res is the response to
\* /newsession once it has arrived; first and loaded are the operand that
\* accepts_commands() has loaded before it loads the other one.
IdleGw == [pc |-> "start", tasks |-> <<>>, idx |-> 0,
           session_res |-> NoResponse, cyc |-> NoCycle,
           first |-> "none", loaded |-> 0]

\* The callers of the session interface besides the poll thread: "mon" calls
\* reset_session, "ui" calls get_session_password.
SessionWriters == {"poll", "mon"}

\* No reset_session and no get_session_password running, the lock free.
\* writers and readers are the holders of _session_password_mutex; issued is
\* the password each running create_session is about to store. The other
\* fields are history: the steps of the last reset_session in order, whether
\* it began with the poll thread's create_session over, how its
\* create_session ended, the values the password has held in full, the last
\* value get_session_password returned, and the resets begun.
IdleSess == [pc |-> "idle", rd |-> "idle", writers |-> {}, readers |-> 0,
             issued |-> [t \in SessionWriters |-> NO_PASSWORD],
             order |-> <<>>, alone |-> TRUE, result |-> "none",
             held |-> {NO_PASSWORD}, read |-> NO_PASSWORD, resets |-> 0]

\* rx_loop and command_loop about to test _is_running, no destructor of
\* Server running; inputs counts the console lines and the task-bearing
\* /fetch responses that have arrived.
IdleLoops == [rx |-> "top", con |-> "top", srv |-> "alive", inputs |-> 0]

\* No set_speed call made yet. by is the thread whose call opened the window,
\* t0 the target_speed and mark the number of commands pushed at that call,
\* calls the set_speed calls of the window so far.
NoWindow == [open |-> FALSE, by |-> "gw", t0 |-> 0, mark |-> 0, calls |-> 0]

\* The state after Server's constructor: _device_state is not in the
\* initialiser list, and the C++20 std::atomic default constructor
\* value-initialises each field (false, DEFAULT, 0, 0).
Init ==
    /\ is_on = FALSE
    /\ mode = MODE_DEFAULT
    /\ target_speed = 0
    /\ actual_speed = 0
    /\ is_running = TRUE
    /\ message_queue = <<>>
    /\ buffer = <<>>
    /\ wire = <<>>
    /\ line_read = <<>>
    /\ last = NoOp
    /\ rx_ev = NoRx
    /\ ret = NoRet
    /\ thr = [t \in Threads |-> IdleThr]
    /\ lock = "none"
    /\ tx = IdleTx
    /\ hist = NoHist
    /\ gw = IdleGw
    /\ gw_running = TRUE
    /\ session_password = NO_PASSWORD
    /\ reqs = <<>>
    /\ sess = IdleSess
    /\ loops = IdleLoops
    /\ win = NoWindow

\* ------------------------------------------------------------ mutators

\* The part of the state the mutation operations read and write, with the
\* commands pushed so far by the running call.
Cur == [is_on |-> is_on, mode |-> mode, target_speed |-> target_speed,
        is_running |-> is_running, pushed |-> <<>>]

Rep(c, n) == [i \in 1..n |-> c]

\* set_is_on that forgets to reset target_speed to 1 on power-on.
set_is_on_keeps_target(s, on) ==
    IF s.is_on = on
    THEN s
    ELSE [s EXCEPT !.pushed = Append(@, IF on THEN MESSAGE_ON ELSE MESSAGE_OFF),
                   !.is_on = on,
                   !.target_speed = IF on THEN s.target_speed ELSE 0]

\* set_is_on without the early return for an unchanged power state.
set_is_on_not_idempotent(s, on) ==
    [s EXCEPT !.pushed = Append(@, IF on THEN MESSAGE_ON ELSE MESSAGE_OFF),
              !.is_on = on,
              !.target_speed = IF on THEN 1 ELSE 0]

set_is_on(s, on) ==
    IF s.is_on = on
    THEN s
    ELSE [s EXCEPT !.pushed = Append(@, IF on THEN MESSAGE_ON ELSE MESSAGE_OFF),
                   !.is_on = on,
                   !.target_speed = IF on THEN 1 ELSE 0]

\* The step loops running one iteration short (i < diff - 1).
push_steps_short(s, speed) ==
    LET steps == IF s.target_speed < speed
                 THEN Rep(MESSAGE_HIGHER, speed - s.target_speed - 1)
                 ELSE IF s.target_speed > speed
                 THEN Rep(MESSAGE_LOWER, s.target_speed - speed - 1)
                 ELSE <<>>
    IN [s EXCEPT !.pushed = @ \o steps, !.target_speed = speed]

\* set_speed's step loops: |speed - target_speed| single steps, then the store.
push_steps(s, speed) ==
    LET steps == IF s.target_speed < speed
                 THEN Rep(MESSAGE_HIGHER, speed - s.target_speed)
                 ELSE IF s.target_speed > speed
                 THEN Rep(MESSAGE_LOWER, s.target_speed - speed)
                 ELSE <<>>
    IN [s EXCEPT !.pushed = @ \o steps, !.target_speed = speed]

\* set_speed without the power-off branch for speed = 0.
set_speed_steps_to_zero(s, speed) ==
    IF ~s.is_on /\ speed > 0
    THEN push_steps(set_is_on(s, TRUE), speed)
    ELSE push_steps(s, speed)

set_speed(s, speed) ==
    IF ~s.is_on /\ speed > 0
    THEN push_steps(set_is_on(s, TRUE), speed)
    ELSE IF s.is_on /\ speed = 0
    THEN set_is_on(s, FALSE)
    ELSE push_steps(s, speed)

\* set_mode sending the MODE opcode to the device when it stores the mode.
set_mode_pushes_mode(s, m) ==
    IF ~s.is_on
    THEN s
    ELSE [s EXCEPT !.pushed = Append(@, MESSAGE_MODE), !.mode = m]

\* set_mode without the is_on test.
set_mode_unguarded(s, m) == [s EXCEPT !.mode = m]

set_mode(s, m) ==
    IF ~s.is_on THEN s ELSE [s EXCEPT !.mode = m]

\* ------------------------------------------------------------ console

cmd_help(s) == s

cmd_exit(s) ==
    LET s1 == IF s.is_on
              THEN [s EXCEPT !.pushed = Append(@, MESSAGE_OFF), !.is_on = FALSE]
              ELSE s
    IN [s1 EXCEPT !.is_running = FALSE]

cmd_power(s) == set_is_on(s, ~s.is_on)

cmd_mode(s) == IF ~s.is_on THEN s ELSE set_mode(s, MODE_DEFAULT)

cmd_lower(s) ==
    IF ~s.is_on \/ s.target_speed = 0 THEN s ELSE set_speed(s, s.target_speed - 1)

\* higher without the test for MAX_SPEED.
cmd_higher_unlimited(s) ==
    IF ~s.is_on THEN s ELSE set_speed(s, s.target_speed + 1)

cmd_higher(s) ==
    IF ~s.is_on \/ s.target_speed = MAX_SPEED THEN s
    ELSE set_speed(s, s.target_speed + 1)

\* ------------------------------------------------------------ Spec

Admit(r) ==
    /\ r.target_speed \in TargetRange
    /\ \/ message_queue = <<>>
       \/ Len(message_queue) + Len(r.pushed) <= MaxBacklog

\* The effect of one call: r is the state the call returns in.
Apply(r) ==
    /\ Admit(r)
    /\ is_on' = r.is_on
    /\ mode' = r.mode
    /\ target_speed' = r.target_speed
    /\ is_running' = r.is_running
    /\ message_queue' = message_queue \o r.pushed

Record(op, arg, r) ==
    last' = [op |-> op, arg |-> arg, pre_on |-> is_on,
             pre_target |-> target_speed, pre_mode |-> mode,
             pushed |-> r.pushed]

Call(op, arg, r) ==
    /\ Apply(r)
    /\ Record(op, arg, r)
    /\ UNCHANGED <<conc_vars, gw_vars, aux_vars, actual_speed, buffer, wire, line_read, rx_ev, ret>>

SetIsOn == \E on \in BOOLEAN : Call("set_is_on", on, set_is_on(Cur, on))

SetSpeed == \E speed \in SpeedArgs : Call("set_speed", speed, set_speed(Cur, speed))

SetMode == \E m \in Modes : Call("set_mode", m, set_mode(Cur, m))

\* command_loop: one recognised line, dispatched while _is_running.
CmdHelp == is_running /\ Call("help", 0, cmd_help(Cur))
CmdExit == is_running /\ Call("exit", 0, cmd_exit(Cur))
CmdPower == is_running /\ Call("power", 0, cmd_power(Cur))
CmdMode == is_running /\ Call("mode", 0, cmd_mode(Cur))
CmdLower == is_running /\ Call("lower", 0, cmd_lower(Cur))
CmdHigher == is_running /\ Call("higher", 0, cmd_higher(Cur))

\* tx_loop: one iteration that finds the queue non-empty: pop the front and
\* attempt one write, which succeeds or fails; either way the command is gone.
TxIteration ==
    /\ is_running
    /\ message_queue # <<>>
    /\ \E ok \in BOOLEAN : message_queue' = Tail(message_queue)
    /\ UNCHANGED <<conc_vars, gw_vars, aux_vars, is_on, mode, target_speed, actual_speed, is_running,
                   buffer, wire, line_read, last, rx_ev, ret>>

Next ==
    \/ SetIsOn
    \/ SetSpeed
    \/ SetMode
    \/ CmdHelp
    \/ CmdExit
    \/ CmdPower
    \/ CmdMode
    \/ CmdLower
    \/ CmdHigher
    \/ TxIteration

Spec == Init /\ [][Next]_vars

\* ------------------------------------------------------------ SpecRx

\* std::string(buffer.data()): the bytes before the first NUL.
RECURSIVE CString(_)
CString(b) ==
    IF b = <<>> \/ Head(b) = NUL
    THEN <<>>
    ELSE <<Head(b)>> \o CString(Tail(b))

\* feedback.ends_with('\r') ? feedback.substr(0, size - 1) : feedback
StripCR(f) ==
    IF f # <<>> /\ f[Len(f)] = CR THEN SubSeq(f, 1, Len(f) - 1) ELSE f

\* handle_feedback ignoring power_on.
handle_feedback_ignores_power_on(actual, feedback) ==
    IF feedback = POWER_OFF THEN 0
    ELSE IF feedback = SPEED_UP THEN actual + 1
    ELSE IF feedback = SPEED_DOWN THEN actual - 1
    ELSE actual

handle_feedback(actual, feedback) ==
    IF feedback = POWER_ON THEN 1
    ELSE IF feedback = POWER_OFF THEN 0
    ELSE IF feedback = SPEED_UP THEN actual + 1
    ELSE IF feedback = SPEED_DOWN THEN actual - 1
    ELSE actual

\* rx_loop after its inner read loop: a non-empty buffer is converted,
\* stripped, classified and logged; an empty one is skipped.
rx_process(actual, buf) ==
    IF buf = <<>>
    THEN [actual |-> actual, logged |-> FALSE, msg |-> <<>>]
    ELSE LET feedback == StripCR(CString(buf))
         IN [actual |-> handle_feedback(actual, feedback), logged |-> TRUE,
             msg |-> feedback]

\* The lines the device emits, without their terminator.
DeviceLines ==
    Tokens \cup {GARBAGE, <<>>, SPEED_UP \o <<"x">>, POWER_ON \o <<NUL, "x">>}

Terminators == {<<LF>>, <<CR, LF>>}

\* The device emits one line with its terminator; the host reads it byte by byte.
DeviceSend ==
    /\ wire = <<>>
    /\ \E l \in DeviceLines, t \in Terminators :
          /\ wire' = l \o t
          /\ line_read' = <<>>
    /\ UNCHANGED <<conc_vars, gw_vars, aux_vars, is_on, mode, target_speed, actual_speed, is_running,
                   message_queue, buffer, last, rx_ev, ret>>

\* The first try_read of an outer iteration follows the _is_running test; the
\* inner loop's later reads do not.
RxMayRead == buffer # <<>> \/ is_running

\* The end of one outer iteration of rx_loop, by a line feed or by a timeout.
RxFinish(term) ==
    LET r == rx_process(actual_speed, buffer)
    IN /\ r.actual \in ActualRange
       /\ actual_speed' = r.actual
       /\ buffer' = <<>>
       /\ rx_ev' = [term |-> term, buf |-> buffer, line |-> line_read,
                    logged |-> r.logged, msg |-> r.msg, before |-> actual_speed]

\* try_read returns a byte that is not '\n': it is appended to the buffer.
RxReadByte ==
    /\ RxMayRead
    /\ wire # <<>>
    /\ Head(wire) # LF
    /\ buffer' = Append(buffer, Head(wire))
    /\ line_read' = Append(line_read, Head(wire))
    /\ wire' = Tail(wire)
    /\ rx_ev' = NoRx
    /\ UNCHANGED <<conc_vars, gw_vars, aux_vars, is_on, mode, target_speed, actual_speed, is_running,
                   message_queue, last, ret>>

\* try_read returns '\n': the inner loop breaks and the buffer is processed.
RxReadLF ==
    /\ RxMayRead
    /\ wire # <<>>
    /\ Head(wire) = LF
    /\ wire' = Tail(wire)
    /\ RxFinish("LF")
    /\ line_read' = <<>>
    /\ UNCHANGED <<conc_vars, gw_vars, aux_vars, is_on, mode, target_speed, is_running, message_queue, last,
                   ret>>

\* try_read returns false (no byte within the timeout): the inner loop ends
\* and the buffer is processed.
RxTimeout ==
    /\ RxMayRead
    /\ RxFinish("TIMEOUT")
    /\ UNCHANGED <<conc_vars, gw_vars, aux_vars, is_on, mode, target_speed, is_running, message_queue, wire,
                   line_read, last, ret>>

NextRx ==
    \/ DeviceSend
    \/ RxReadByte
    \/ RxReadLF
    \/ RxTimeout

SpecRx == Init /\ [][NextRx]_vars

\* ------------------------------------------------------------ SpecDev

\* The set_speed arguments tried together with device feedback.
DevSpeedArgs == {MIN_SPEED, MIN_SPEED + 1, MIN_SPEED + 2, MAX_SPEED}

\* The whole lines the receive loop classifies here.
DevLines == Tokens \cup {GARBAGE}

DeviceState == [is_on |-> is_on, mode |-> mode, target_speed |-> target_speed,
                actual_speed |-> actual_speed]

\* accepts_commands() comparing only one way (actual_speed >= target_speed).
accepts_commands_at_least(s) == s.actual_speed >= s.target_speed

accepts_commands(s) == s.actual_speed = s.target_speed

DevCall(r) ==
    /\ Apply(r)
    /\ ret' = NoRet
    /\ UNCHANGED <<conc_vars, gw_vars, aux_vars, actual_speed, buffer, wire, line_read, last, rx_ev>>

DevSetIsOn == \E on \in BOOLEAN : DevCall(set_is_on(Cur, on))

DevSetSpeed == \E speed \in DevSpeedArgs : DevCall(set_speed(Cur, speed))

DevSetMode == \E m \in Modes : DevCall(set_mode(Cur, m))

\* command_loop: one recognised line, dispatched while _is_running.
DevConsole ==
    /\ is_running
    /\ \E r \in {cmd_help(Cur), cmd_exit(Cur), cmd_power(Cur), cmd_mode(Cur),
                 cmd_lower(Cur), cmd_higher(Cur)} : DevCall(r)

\* The receive loop storing what it read into target_speed as well.
DevFeedbackWritesTarget ==
    \E l \in DevLines :
        LET r == rx_process(actual_speed, l)
        IN /\ r.actual \in ActualRange
           /\ actual_speed' = r.actual
           /\ target_speed' = r.actual
           /\ ret' = NoRet
           /\ UNCHANGED <<conc_vars, gw_vars, aux_vars, is_on, mode, is_running, message_queue,
                          buffer, wire, line_read, last, rx_ev>>

\* rx_loop: one whole line read up to its line feed and classified.
DevFeedback ==
    \E l \in DevLines :
        LET r == rx_process(actual_speed, l)
        IN /\ r.actual \in ActualRange
           /\ actual_speed' = r.actual
           /\ ret' = NoRet
           /\ UNCHANGED <<conc_vars, gw_vars, aux_vars, is_on, mode, target_speed, is_running, message_queue,
                          buffer, wire, line_read, last, rx_ev>>

\* A collaborator (broadcast_state, the monitor) calls accepts_commands().
AcceptsCommands ==
    /\ ret' = [called |-> TRUE, val |-> accepts_commands(DeviceState),
               pre |-> DeviceState]
    /\ UNCHANGED <<conc_vars, gw_vars, aux_vars, is_on, mode, target_speed, actual_speed, is_running,
                   message_queue, buffer, wire, line_read, last, rx_ev>>

NextDev ==
    \/ DevSetIsOn
    \/ DevSetSpeed
    \/ DevFeedback
    \/ AcceptsCommands
    \/ TxIteration

SpecDev == Init /\ [][NextDev]_vars

\* The writers of the device state side by side: the mutation operations, the
\* console commands, the receive loop and the transmit loop.
NextOwn ==
    \/ DevSetIsOn
    \/ DevSetSpeed
    \/ DevSetMode
    \/ DevConsole
    \/ DevFeedback
    \/ TxIteration

SpecOwn == Init /\ [][NextOwn]_vars

\* ------------------------------------------------------------ SpecConc

\* The operations step by step: every atomic load, store and critical section
\* of _queue_mutex is one step, and the two calling threads and tx_loop
\* interleave freely.

\* Operations started, over both threads.
MaxCalls == 3

Calls == thr["gw"].calls + thr["con"].calls

\* The set_speed arguments tried under interleaving.
ConcSpeedArgs == {MIN_SPEED, MIN_SPEED + 2}

ConcFrame ==
    UNCHANGED <<actual_speed, buffer, wire, line_read, last, rx_ev, ret, gw_vars, aux_vars>>

SetThr(t, f) == thr' = [thr EXCEPT ![t] = f]

\* The running operation returns: to its caller's continuation, or to idle.
Finish(f) ==
    IF f.cont = "idle"
    THEN [IdleThr EXCEPT !.calls = f.calls]
    ELSE [f EXCEPT !.pc = f.cont, !.cont = "idle"]

\* One critical section that pushes c.
Push(c) ==
    /\ lock = "none"
    /\ message_queue' = Append(message_queue, c)

CanStart(t) == thr[t].pc = "idle" /\ Calls < MaxCalls

Begin(t, f) == SetThr(t, [f EXCEPT !.calls = thr[t].calls + 1])

\* The poll thread dispatches a POWER, SPEED or MODE task.
StartSetIsOn ==
    /\ CanStart("gw")
    /\ \E on \in BOOLEAN : Begin("gw", [IdleThr EXCEPT !.pc = "on_load", !.x = on])
    /\ UNCHANGED <<is_on, mode, target_speed, is_running, message_queue, lock, tx, hist>>
    /\ ConcFrame

StartSetSpeed ==
    /\ CanStart("gw")
    /\ \E speed \in ConcSpeedArgs :
          Begin("gw", [IdleThr EXCEPT !.pc = "sp_load1", !.speed = speed])
    /\ UNCHANGED <<is_on, mode, target_speed, is_running, message_queue, lock, tx, hist>>
    /\ ConcFrame

StartSetMode ==
    /\ CanStart("gw")
    /\ \E m \in Modes : Begin("gw", [IdleThr EXCEPT !.pc = "md_load", !.m = m])
    /\ UNCHANGED <<is_on, mode, target_speed, is_running, message_queue, lock, tx, hist>>
    /\ ConcFrame

\* command_loop dispatches power or exit while _is_running.
StartPower ==
    /\ CanStart("con")
    /\ is_running
    /\ Begin("con", [IdleThr EXCEPT !.pc = "pw_load"])
    /\ UNCHANGED <<is_on, mode, target_speed, is_running, message_queue, lock, tx, hist>>
    /\ ConcFrame

StartExit ==
    /\ CanStart("con")
    /\ is_running
    /\ Begin("con", [IdleThr EXCEPT !.pc = "ex_load"])
    /\ UNCHANGED <<is_on, mode, target_speed, is_running, message_queue, lock, tx, hist>>
    /\ ConcFrame

\* power: set_is_on(!_device_state.is_on)
PwLoad ==
    \E t \in Threads :
        /\ thr[t].pc = "pw_load"
        /\ SetThr(t, [thr[t] EXCEPT !.pc = "on_load", !.x = ~is_on])
        /\ UNCHANGED <<is_on, mode, target_speed, is_running, message_queue, lock, tx, hist>>
        /\ ConcFrame

\* set_is_on: if (_device_state.is_on == is_on) return;
OnLoad ==
    \E t \in Threads :
        /\ thr[t].pc = "on_load"
        /\ SetThr(t, IF is_on = thr[t].x THEN Finish(thr[t])
                     ELSE [thr[t] EXCEPT !.pc = "on_push"])
        /\ UNCHANGED <<is_on, mode, target_speed, is_running, message_queue, lock, tx, hist>>
        /\ ConcFrame

\* set_is_on: { lock; push(is_on ? MESSAGE_ON : MESSAGE_OFF); }
OnPush ==
    \E t \in Threads :
        /\ thr[t].pc = "on_push"
        /\ LET c == IF thr[t].x THEN MESSAGE_ON ELSE MESSAGE_OFF
           IN /\ Push(c)
              /\ hist' = [hist EXCEPT !.pushed = Append(@, c)]
        /\ SetThr(t, [thr[t] EXCEPT !.pc = "on_store"])
        /\ UNCHANGED <<is_on, mode, target_speed, is_running, lock, tx>>
        /\ ConcFrame

\* set_is_on: _device_state.is_on = is_on;
OnStoreIsOn ==
    \E t \in Threads :
        /\ thr[t].pc = "on_store"
        /\ is_on' = thr[t].x
        /\ SetThr(t, [thr[t] EXCEPT !.pc = "on_target"])
        /\ UNCHANGED <<mode, target_speed, is_running, message_queue, lock, tx, hist>>
        /\ ConcFrame

\* set_is_on: _device_state.target_speed = is_on ? 1 : 0;
OnStoreTarget ==
    \E t \in Threads :
        /\ thr[t].pc = "on_target"
        /\ target_speed' = IF thr[t].x THEN 1 ELSE 0
        /\ SetThr(t, Finish(thr[t]))
        /\ UNCHANGED <<is_on, mode, is_running, message_queue, lock, tx, hist>>
        /\ ConcFrame

\* set_speed: if (!_device_state.is_on && speed > 0) set_is_on(true);
SpLoad1 ==
    \E t \in Threads :
        /\ thr[t].pc = "sp_load1"
        /\ SetThr(t, IF ~is_on /\ thr[t].speed > 0
                     THEN [thr[t] EXCEPT !.pc = "on_load", !.x = TRUE,
                                         !.cont = "sp_cmp_up"]
                     ELSE [thr[t] EXCEPT !.pc = "sp_load2"])
        /\ UNCHANGED <<is_on, mode, target_speed, is_running, message_queue, lock, tx, hist>>
        /\ ConcFrame

\* set_speed: else if (_device_state.is_on && speed == 0) { set_is_on(false); return; }
SpLoad2 ==
    \E t \in Threads :
        /\ thr[t].pc = "sp_load2"
        /\ SetThr(t, IF is_on /\ thr[t].speed = 0
                     THEN [thr[t] EXCEPT !.pc = "on_load", !.x = FALSE]
                     ELSE [thr[t] EXCEPT !.pc = "sp_cmp_up"])
        /\ UNCHANGED <<is_on, mode, target_speed, is_running, message_queue, lock, tx, hist>>
        /\ ConcFrame

\* set_speed: if (_device_state.target_speed < speed)
SpCmpUp ==
    \E t \in Threads :
        /\ thr[t].pc = "sp_cmp_up"
        /\ SetThr(t, [thr[t] EXCEPT !.pc = IF target_speed < thr[t].speed
                                           THEN "sp_diff_up" ELSE "sp_cmp_down"])
        /\ UNCHANGED <<is_on, mode, target_speed, is_running, message_queue, lock, tx, hist>>
        /\ ConcFrame

\* set_speed: const auto diff = speed - _device_state.target_speed;
SpDiffUp ==
    \E t \in Threads :
        /\ thr[t].pc = "sp_diff_up"
        /\ LET diff == thr[t].speed - target_speed
           IN SetThr(t, IF diff > 0
                        THEN [thr[t] EXCEPT !.pc = "sp_push", !.n = diff,
                                            !.dir = MESSAGE_HIGHER]
                        ELSE [thr[t] EXCEPT !.pc = "sp_store"])
        /\ UNCHANGED <<is_on, mode, target_speed, is_running, message_queue, lock, tx, hist>>
        /\ ConcFrame

\* set_speed: else if (_device_state.target_speed > speed)
SpCmpDown ==
    \E t \in Threads :
        /\ thr[t].pc = "sp_cmp_down"
        /\ SetThr(t, [thr[t] EXCEPT !.pc = IF target_speed > thr[t].speed
                                           THEN "sp_diff_down" ELSE "sp_store"])
        /\ UNCHANGED <<is_on, mode, target_speed, is_running, message_queue, lock, tx, hist>>
        /\ ConcFrame

\* set_speed: const auto diff = _device_state.target_speed - speed;
SpDiffDown ==
    \E t \in Threads :
        /\ thr[t].pc = "sp_diff_down"
        /\ LET diff == target_speed - thr[t].speed
           IN SetThr(t, IF diff > 0
                        THEN [thr[t] EXCEPT !.pc = "sp_push", !.n = diff,
                                            !.dir = MESSAGE_LOWER]
                        ELSE [thr[t] EXCEPT !.pc = "sp_store"])
        /\ UNCHANGED <<is_on, mode, target_speed, is_running, message_queue, lock, tx, hist>>
        /\ ConcFrame

\* set_speed: one iteration of a push loop.
SpPush ==
    \E t \in Threads :
        /\ thr[t].pc = "sp_push"
        /\ Push(thr[t].dir)
        /\ hist' = [hist EXCEPT !.pushed = Append(@, thr[t].dir)]
        /\ SetThr(t, IF thr[t].n = 1
                     THEN [thr[t] EXCEPT !.pc = "sp_store", !.n = 0,
                                         !.dir = MESSAGE_HIGHER]
                     ELSE [thr[t] EXCEPT !.n = @ - 1])
        /\ UNCHANGED <<is_on, mode, target_speed, is_running, lock, tx>>
        /\ ConcFrame

\* set_speed: _device_state.target_speed = speed;
SpStore ==
    \E t \in Threads :
        /\ thr[t].pc = "sp_store"
        /\ target_speed' = thr[t].speed
        /\ SetThr(t, Finish(thr[t]))
        /\ UNCHANGED <<is_on, mode, is_running, message_queue, lock, tx, hist>>
        /\ ConcFrame

\* set_mode: if (!_device_state.is_on) return;
MdLoad ==
    \E t \in Threads :
        /\ thr[t].pc = "md_load"
        /\ SetThr(t, IF ~is_on THEN Finish(thr[t])
                     ELSE [thr[t] EXCEPT !.pc = "md_store"])
        /\ UNCHANGED <<is_on, mode, target_speed, is_running, message_queue, lock, tx, hist>>
        /\ ConcFrame

\* set_mode: _device_state.mode = mode;
MdStore ==
    \E t \in Threads :
        /\ thr[t].pc = "md_store"
        /\ mode' = thr[t].m
        /\ hist' = [hist EXCEPT !.mode_off_write = @ \/ ~is_on]
        /\ SetThr(t, Finish(thr[t]))
        /\ UNCHANGED <<is_on, target_speed, is_running, message_queue, lock, tx>>
        /\ ConcFrame

\* exit: if (_device_state.is_on)
ExLoad ==
    \E t \in Threads :
        /\ thr[t].pc = "ex_load"
        /\ hist' = [hist EXCEPT !.exit_saw_on = is_on]
        /\ SetThr(t, [thr[t] EXCEPT !.pc = IF is_on THEN "ex_push" ELSE "ex_stop"])
        /\ UNCHANGED <<is_on, mode, target_speed, is_running, message_queue, lock, tx>>
        /\ ConcFrame

\* exit: lock; _message_queue.push(MESSAGE_OFF);
ExPush ==
    \E t \in Threads :
        /\ thr[t].pc = "ex_push"
        /\ Push(MESSAGE_OFF)
        /\ lock' = t
        /\ hist' = [hist EXCEPT !.pushed = Append(@, MESSAGE_OFF),
                                !.exit_off = Len(hist.pushed) + 1]
        /\ SetThr(t, [thr[t] EXCEPT !.pc = "ex_store"])
        /\ UNCHANGED <<is_on, mode, target_speed, is_running, tx>>
        /\ ConcFrame

\* exit: _device_state.is_on = false; unlock
ExStore ==
    \E t \in Threads :
        /\ thr[t].pc = "ex_store"
        /\ lock = t
        /\ is_on' = FALSE
        /\ lock' = "none"
        /\ hist' = [hist EXCEPT !.exit_stored = TRUE]
        /\ SetThr(t, [thr[t] EXCEPT !.pc = "ex_stop"])
        /\ UNCHANGED <<mode, target_speed, is_running, message_queue, tx>>
        /\ ConcFrame

\* exit: _is_running = false; command_loop then ends.
ExStop ==
    \E t \in Threads :
        /\ thr[t].pc = "ex_stop"
        /\ is_running' = FALSE
        /\ hist' = [hist EXCEPT !.off_before_stop =
                        hist.exit_saw_on => (hist.exit_off > 0 /\ hist.exit_stored)]
        /\ SetThr(t, [IdleThr EXCEPT !.pc = "done", !.calls = thr[t].calls])
        /\ UNCHANGED <<is_on, mode, target_speed, message_queue, lock, tx>>
        /\ ConcFrame

\* tx_loop popping the newest command instead of the oldest.
tx_pop_back(q) ==
    [message |-> q[Len(q)], rest |-> SubSeq(q, 1, Len(q) - 1)]

\* tx_loop: message = front(); pop();
tx_pop(q) == [message |-> Head(q), rest |-> Tail(q)]

\* The queue and the DeviceState, as one write attempt finds and leaves them.
TxView == [queue |-> message_queue, is_on |-> is_on, mode |-> mode,
           target_speed |-> target_speed, actual_speed |-> actual_speed]

\* A failed write putting the command back at the front for a retry.
tx_write_retry(v, message, ok) ==
    IF ok THEN v ELSE [v EXCEPT !.queue = <<message>> \o @]

\* tx_loop: if (!write(message)) warn("Dropped packet while sending, ignoring");
tx_write(v, message, ok) == v

\* tx_loop: while (self->_is_running)
TxTop ==
    /\ tx.pc = "top"
    /\ tx' = [tx EXCEPT !.pc = IF is_running THEN "test" ELSE "stopped"]
    /\ UNCHANGED <<is_on, mode, target_speed, is_running, message_queue, lock, thr, hist>>
    /\ ConcFrame

\* tx_loop going on to pop whatever the emptiness test found.
TxTestAlwaysBusy ==
    /\ tx.pc = "test"
    /\ lock = "none"
    /\ tx' = [tx EXCEPT !.pc = "pop"]
    /\ UNCHANGED <<is_on, mode, target_speed, is_running, message_queue, lock, thr, hist>>
    /\ ConcFrame

\* tx_loop never finding the queue busy.
TxTestNeverBusy ==
    /\ tx.pc = "test"
    /\ lock = "none"
    /\ tx' = [tx EXCEPT !.pc = "top"]
    /\ UNCHANGED <<is_on, mode, target_speed, is_running, message_queue, lock, thr, hist>>
    /\ ConcFrame

\* tx_loop: { lock; is_busy = !empty(); }; an idle iteration sleeps and loops.
TxTest ==
    /\ tx.pc = "test"
    /\ lock = "none"
    /\ tx' = [tx EXCEPT !.pc = IF message_queue # <<>> THEN "pop" ELSE "top"]
    /\ UNCHANGED <<is_on, mode, target_speed, is_running, message_queue, lock, thr, hist>>
    /\ ConcFrame

\* tx_loop: { lock; message = front(); pop(); }; front() of an empty queue is
\* undefined behaviour.
TxPop ==
    /\ tx.pc = "pop"
    /\ lock = "none"
    /\ IF message_queue = <<>>
       THEN /\ tx' = [tx EXCEPT !.pc = "undefined"]
            /\ UNCHANGED message_queue
       ELSE LET r == tx_pop(message_queue)
            IN /\ tx' = [pc |-> "write", message |-> r.message]
               /\ message_queue' = r.rest
    /\ UNCHANGED <<is_on, mode, target_speed, is_running, lock, thr, hist>>
    /\ ConcFrame

\* tx_loop: one write attempt, which succeeds or fails, then the log line and
\* the sleep.
TxWrite ==
    /\ tx.pc = "write"
    /\ \E ok \in BOOLEAN :
          LET v == tx_write(TxView, tx.message, ok)
          IN /\ message_queue' = v.queue
             /\ is_on' = v.is_on
             /\ mode' = v.mode
             /\ target_speed' = v.target_speed
             /\ actual_speed' = v.actual_speed
             /\ hist' = [hist EXCEPT !.attempted = Append(@, tx.message),
                                     !.tx_ev = [written |-> TRUE, ok |-> ok,
                                                msg |-> tx.message,
                                                kept |-> v = TxView]]
    /\ tx' = [IdleTx EXCEPT !.pc = "top"]
    /\ UNCHANGED <<is_running, lock, thr>>
    /\ UNCHANGED <<buffer, wire, line_read, last, rx_ev, ret, gw_vars, aux_vars>>

NextConc ==
    \/ StartSetIsOn
    \/ StartSetSpeed
    \/ StartSetMode
    \/ StartPower
    \/ StartExit
    \/ PwLoad
    \/ OnLoad
    \/ OnPush
    \/ OnStoreIsOn
    \/ OnStoreTarget
    \/ SpLoad1
    \/ SpLoad2
    \/ SpCmpUp
    \/ SpDiffUp
    \/ SpCmpDown
    \/ SpDiffDown
    \/ SpPush
    \/ SpStore
    \/ MdLoad
    \/ MdStore
    \/ ExLoad
    \/ ExPush
    \/ ExStore
    \/ ExStop
    \/ TxTop
    \/ TxTest
    \/ TxPop
    \/ TxWrite

SpecConc == Init /\ [][NextConc]_vars

\* ------------------------------------------------------------ SpecGw

\* The gateway's poll thread (Gateway::update_loop) step by step: one step per
\* request, per dispatched task, per sleep and per test of _is_running, with
\* the remote end answering each request in every way it can. The poll thread
\* is the only caller of the mutation operations here.

STATUS_OK == 200

\* The statuses a response carries: 200 and one that is not 200.
Statuses == {STATUS_OK, 403}

\* Requests the poll thread posts in one run.
MaxReqs == 6

\* Length of a fetched tasks array.
MaxTasks == 2

\* The speeds a remote SPEED task carries.
GwSpeedArgs == {MIN_SPEED, MIN_SPEED + 2}

\* The session passwords the remote end issues.
Passwords == {"s1", "s2"}

JSON_ARRAY == JsonBody(TRUE, FALSE, {}, FALSE, <<>>, FALSE, NO_PASSWORD)
EMPTY_OBJECT == JsonBody(TRUE, TRUE, {}, FALSE, <<>>, FALSE, NO_PASSWORD)
ERROR_OBJECT == JsonBody(TRUE, TRUE, {"error"}, FALSE, <<>>, FALSE, NO_PASSWORD)
TASKS_NOT_ARRAY == JsonBody(TRUE, TRUE, {"tasks"}, FALSE, <<>>, FALSE, NO_PASSWORD)
PASSWORD_NOT_STRING ==
    JsonBody(TRUE, TRUE, {"password"}, FALSE, <<>>, FALSE, NO_PASSWORD)

TasksBody(ts) == JsonBody(TRUE, TRUE, {"tasks"}, TRUE, ts, FALSE, NO_PASSWORD)

PasswordBody(p) == JsonBody(TRUE, TRUE, {"password"}, FALSE, <<>>, TRUE, p)

\* An element of a tasks array, as the remote end encodes it.
Task(type, on, speed, m) ==
    [type |-> type, is_on |-> on, speed |-> speed, mode |-> m]

Tasks ==
    {Task("POWER", on, 0, MODE_DEFAULT) : on \in BOOLEAN}
        \cup {Task("SPEED", FALSE, sp, MODE_DEFAULT) : sp \in GwSpeedArgs}
        \cup {Task("MODE", FALSE, 0, MODE_OTHER)}

TaskArrays == UNION {[1..n -> Tasks] : n \in 0..MaxTasks}

Bodies ==
    {NOT_JSON, JSON_ARRAY, EMPTY_OBJECT, ERROR_OBJECT, TASKS_NOT_ARRAY,
     PASSWORD_NOT_STRING}
        \cup {TasksBody(ts) : ts \in TaskArrays}
        \cup {PasswordBody(p) : p \in Passwords}


\* dto::Task::deserialize: the task's type and the payload of that type.
deserialize(task) ==
    [type |-> task.type, power |-> [is_on |-> task.is_on],
     speed |-> [speed |-> task.speed], mode |-> [mode |-> task.mode]]

NoDto == deserialize(Task("NONE", FALSE, 0, MODE_DEFAULT))

\* What broadcast_state reads into dto::DeviceState.
Snapshot ==
    [is_on |-> is_on, accepts_commands |-> accepts_commands(DeviceState),
     target_speed |-> target_speed, actual_speed |-> actual_speed,
     mode |-> mode]

\* check_status accepting every response that arrived, whatever its status.
check_status_any_status(res) == res.present

\* check_status: true for a response with status 200 only; the body of any
\* other response is parsed inside try/catch and only logged.
check_status(res) == res.present /\ res.status = STATUS_OK

\* The bodies tried with a status other than 200: check_status looks at such a
\* body for "error" only.
ErrorBodies ==
    {NOT_JSON, JSON_ARRAY, EMPTY_OBJECT, ERROR_OBJECT,
     TasksBody(<<Task("POWER", TRUE, 0, MODE_DEFAULT)>>),
     PasswordBody("s1")}

Responses ==
    {NoResponse}
        \cup {[present |-> TRUE, status |-> STATUS_OK, body |-> b] : b \in Bodies}
        \cup {[present |-> TRUE, status |-> s, body |-> b] :
                 s \in Statuses \ {STATUS_OK}, b \in ErrorBodies}

\* The results check_status has over all responses.
StatusChecks == {check_status(res) : res \in Responses}

\* create_session returning true where the code returns false.
create_session_never_fails(res) ==
    IF ~check_status(res)
    THEN [ret |-> "true", stored |-> FALSE, password |-> NO_PASSWORD]
    ELSE IF ~res.body.json
    THEN [ret |-> "throw", stored |-> FALSE, password |-> NO_PASSWORD]
    ELSE IF "password" \notin res.body.keys
    THEN [ret |-> "true", stored |-> FALSE, password |-> NO_PASSWORD]
    ELSE IF ~res.body.password_string
    THEN [ret |-> "throw", stored |-> FALSE, password |-> NO_PASSWORD]
    ELSE [ret |-> "true", stored |-> TRUE, password |-> res.body.password]

\* create_session on the response to /newsession: false for a failed status
\* check or a body without "password"; json::parse of a body that is not JSON
\* and the conversion of a non-string password throw inside a noexcept
\* function; otherwise the password is stored and the result is true.
create_session(res) ==
    IF ~check_status(res)
    THEN [ret |-> "false", stored |-> FALSE, password |-> NO_PASSWORD]
    ELSE IF ~res.body.json
    THEN [ret |-> "throw", stored |-> FALSE, password |-> NO_PASSWORD]
    ELSE IF "password" \notin res.body.keys
    THEN [ret |-> "false", stored |-> FALSE, password |-> NO_PASSWORD]
    ELSE IF ~res.body.password_string
    THEN [ret |-> "throw", stored |-> FALSE, password |-> NO_PASSWORD]
    ELSE [ret |-> "true", stored |-> TRUE, password |-> res.body.password]

\* update_loop on the response to /fetch: continue, throw (json::parse outside
\* any try block, in a noexcept function) or dispatch.
fetch_result(res) ==
    IF ~check_status(res) THEN "continue"
    ELSE IF ~res.body.json THEN "throw"
    ELSE IF ~res.body.object \/ "tasks" \notin res.body.keys THEN "continue"
    ELSE IF ~res.body.tasks_array THEN "continue"
    ELSE "dispatch"

\* The switch without its MODE case.
dispatch_without_mode(s, task_dto) ==
    IF task_dto.type = "POWER"
    THEN [op |-> "set_is_on", r |-> set_is_on(s, task_dto.power.is_on)]
    ELSE IF task_dto.type = "SPEED"
    THEN [op |-> "set_speed", r |-> set_speed(s, task_dto.speed.speed)]
    ELSE [op |-> "none", r |-> s]

\* The switch on task_dto.type: the operation called and the state it leaves.
dispatch(s, task_dto) ==
    IF task_dto.type = "POWER"
    THEN [op |-> "set_is_on", r |-> set_is_on(s, task_dto.power.is_on)]
    ELSE IF task_dto.type = "SPEED"
    THEN [op |-> "set_speed", r |-> set_speed(s, task_dto.speed.speed)]
    ELSE IF task_dto.type = "MODE"
    THEN [op |-> "set_mode", r |-> set_mode(s, task_dto.mode.mode)]
    ELSE [op |-> "none", r |-> s]

\* The configured shared password, Gateway::_password: set by the constructor
\* and never written again.
PASSWORD == "shared"

\* A request body whose password is the session password.
request_with_session_password(path, on) ==
    [path |-> path, is_online |-> on, password |-> session_password]

\* req_body["password"] = self->_password, in every function that posts.
request(path, on) == [path |-> path, is_online |-> on, password |-> PASSWORD]

\* client.Post: the request joins the log of requests posted.
Post(path, on) ==
    /\ Len(reqs) < MaxReqs
    /\ reqs' = Append(reqs, request(path, on))

\* What the poll thread leaves alone whatever it does.
GwKeeps ==
    UNCHANGED <<conc_vars, aux_vars, actual_speed, is_running, buffer, wire, line_read,
                last, rx_ev, ret>>

GwKeepsDevice == UNCHANGED <<is_on, mode, target_speed, message_queue>>

\* broadcast_is_online(self, true): the answer is checked and dropped.
GwOnline ==
    /\ gw.pc = "start"
    /\ \E ok \in StatusChecks :
          /\ ok \in BOOLEAN
          /\ Post("/setonline", TRUE)
    /\ gw' = [gw EXCEPT !.pc = "newsession"]
    /\ GwKeeps /\ GwKeepsDevice
    /\ UNCHANGED <<gw_running, session_password>>

\* if (!create_session(self)) return;
GwCreateSession ==
    /\ gw.pc = "newsession"
    /\ \E res \in Responses :
          LET c == create_session(res)
          IN /\ Post("/newsession", FALSE)
             /\ session_password' =
                    IF c.stored THEN c.password ELSE session_password
             /\ gw' = [gw EXCEPT !.session_res = res,
                                 !.pc = IF c.ret = "true" THEN "top"
                                        ELSE IF c.ret = "false" THEN "returned"
                                        ELSE "terminated"]
    /\ GwKeeps /\ GwKeepsDevice
    /\ UNCHANGED gw_running

\* while (self->_is_running)
GwTop ==
    /\ gw.pc = "top"
    /\ gw' = [gw EXCEPT !.pc = IF gw_running THEN "fetch" ELSE "offline"]
    /\ GwKeeps /\ GwKeepsDevice
    /\ UNCHANGED <<gw_running, session_password, reqs>>

\* One /fetch and what the loop makes of its response.
GwFetch ==
    /\ gw.pc = "fetch"
    /\ \E res \in Responses :
          LET f == fetch_result(res)
          IN /\ Post("/fetch", FALSE)
             /\ gw' = [gw EXCEPT
                    !.cyc = [fetched |-> TRUE, response |-> res,
                             pre |-> DeviceState, trace |-> <<>>,
                             snap |-> NoSnapshot],
                    !.tasks = IF f = "dispatch" THEN res.body.tasks ELSE <<>>,
                    !.idx = 1,
                    !.pc = IF f = "continue" THEN "top"
                           ELSE IF f = "throw" THEN "terminated"
                           ELSE IF res.body.tasks = <<>> THEN "setstate"
                           ELSE "dispatch"]
    /\ GwKeeps /\ GwKeepsDevice
    /\ UNCHANGED <<gw_running, session_password>>

\* One iteration of the loop over the tasks.
GwDispatch ==
    /\ gw.pc = "dispatch"
    /\ LET task_dto == deserialize(gw.tasks[gw.idx])
           d == dispatch(Cur, task_dto)
       IN /\ is_on' = d.r.is_on
          /\ mode' = d.r.mode
          /\ target_speed' = d.r.target_speed
          /\ message_queue' = message_queue \o d.r.pushed
          /\ gw' = [gw EXCEPT
                 !.cyc.trace = Append(@, [ev |-> d.op, dto |-> task_dto]),
                 !.idx = @ + 1,
                 !.pc = IF gw.idx = Len(gw.tasks) THEN "setstate"
                        ELSE "dispatch"]
    /\ GwKeeps
    /\ UNCHANGED <<gw_running, session_password, reqs>>

\* broadcast_state(self): the snapshot is read and posted, the answer is
\* checked and dropped.
GwBroadcastState ==
    /\ gw.pc = "setstate"
    /\ \E ok \in StatusChecks :
          /\ ok \in BOOLEAN
          /\ Post("/setstate", FALSE)
    /\ gw' = [gw EXCEPT
           !.cyc.snap = Snapshot,
           !.cyc.trace = Append(@, [ev |-> "/setstate", dto |-> NoDto]),
           !.pc = "sleep"]
    /\ GwKeeps /\ GwKeepsDevice
    /\ UNCHANGED <<gw_running, session_password>>

\* std::this_thread::sleep_for(update_rate)
GwSleep ==
    /\ gw.pc = "sleep"
    /\ gw' = [gw EXCEPT
           !.cyc.trace = Append(@, [ev |-> "sleep", dto |-> NoDto]),
           !.pc = "top"]
    /\ GwKeeps /\ GwKeepsDevice
    /\ UNCHANGED <<gw_running, session_password, reqs>>

\* broadcast_is_online(self, false) after the loop; the thread ends.
GwOffline ==
    /\ gw.pc = "offline"
    /\ \E ok \in StatusChecks :
          /\ ok \in BOOLEAN
          /\ Post("/setonline", FALSE)
    /\ gw' = [gw EXCEPT !.pc = "done"]
    /\ GwKeeps /\ GwKeepsDevice
    /\ UNCHANGED <<gw_running, session_password>>

\* ~Gateway clears _is_running and joins the thread.
GwStop ==
    /\ gw_running
    /\ gw_running' = FALSE
    /\ GwKeeps /\ GwKeepsDevice
    /\ UNCHANGED <<gw, session_password, reqs>>

NextGw ==
    \/ GwOnline
    \/ GwCreateSession
    \/ GwTop
    \/ GwFetch
    \/ GwDispatch
    \/ GwBroadcastState
    \/ GwSleep
    \/ GwOffline
    \/ GwStop

SpecGw == Init /\ [][NextGw]_vars

\* ------------------------------------------------------------ SpecSess

\* The session password and its std::shared_mutex: the poll thread up to the
\* end of its create_session, a thread that calls reset_session and a thread
\* that calls get_session_password, interleaved, every lock, store and
\* unlock one step.

\* reset_session calls begun in one run.
MaxResets == 1

\* What a reader without the lock finds while a writer is assigning the
\* std::string: a data race, any mix of the old and the new value.
TORN == "torn"

\* lock_shared() that does not wait for a writer.
can_lock_shared_always(s) == TRUE

\* std::shared_mutex::lock_shared(): granted while no writer holds the mutex.
can_lock_shared(s) == s.writers = {}

\* std::shared_mutex::lock(): granted while nobody holds the mutex.
can_lock(s) == s.writers = {} /\ s.readers = 0

\* The place of thread t in its create_session.
SessPc(t) == IF t = "poll" THEN gw.pc ELSE sess.pc

\* Thread t moves to pc, the session record becoming s.
SessStep(t, pc, s) ==
    /\ gw' = IF t = "poll" THEN [gw EXCEPT !.pc = pc] ELSE gw
    /\ sess' = IF t = "mon" THEN [s EXCEPT !.pc = pc] ELSE s

SessKeeps ==
    UNCHANGED <<conc_vars, loops, win, is_on, mode, target_speed, actual_speed,
                is_running, message_queue, buffer, wire, line_read, last,
                rx_ev, ret, gw_running>>

\* Where create_session's result takes thread t: the poll thread enters its
\* loop or returns, reset_session returns; a throw ends the process.
AfterSession(t, result) ==
    IF result = "throw" THEN "terminated"
    ELSE IF t = "mon" THEN "idle"
    ELSE IF result = "true" THEN "top" ELSE "returned"

\* create_session: the /newsession request and the checks of its response.
CsPost ==
    \E t \in SessionWriters :
        /\ SessPc(t) = "newsession"
        /\ \E res \in Responses :
              LET c == create_session(res)
                  s == [sess EXCEPT
                           !.issued[t] = c.password,
                           !.order = IF t = "mon" THEN Append(@, "/newsession")
                                     ELSE @,
                           !.result = IF t = "mon" THEN c.ret ELSE @]
              IN /\ Post("/newsession", FALSE)
                 /\ SessStep(t, IF c.ret = "true" THEN "cs_lock"
                                ELSE AfterSession(t, c.ret), s)
        /\ UNCHANGED session_password
        /\ SessKeeps

\* create_session: _session_password_mutex.lock()
CsLock ==
    \E t \in SessionWriters :
        /\ SessPc(t) = "cs_lock"
        /\ can_lock(sess)
        /\ SessStep(t, "cs_store", [sess EXCEPT !.writers = @ \cup {t}])
        /\ UNCHANGED <<session_password, reqs>>
        /\ SessKeeps

\* create_session: the assignment to _session_password begins.
CsStore ==
    \E t \in SessionWriters :
        /\ SessPc(t) = "cs_store"
        /\ session_password' = TORN
        /\ SessStep(t, "cs_stored", sess)
        /\ UNCHANGED reqs
        /\ SessKeeps

\* create_session: the assignment is complete.
CsStored ==
    \E t \in SessionWriters :
        /\ SessPc(t) = "cs_stored"
        /\ session_password' = sess.issued[t]
        /\ SessStep(t, "cs_unlock",
                    [sess EXCEPT !.held = @ \cup {sess.issued[t]}])
        /\ UNCHANGED reqs
        /\ SessKeeps

\* create_session: _session_password_mutex.unlock(); return true;
CsUnlock ==
    \E t \in SessionWriters :
        /\ SessPc(t) = "cs_unlock"
        /\ SessStep(t, AfterSession(t, "true"),
                    [sess EXCEPT !.writers = @ \ {t}])
        /\ UNCHANGED <<session_password, reqs>>
        /\ SessKeeps

\* The poll thread is past its create_session.
PollSessionOver ==
    gw.pc \notin {"start", "newsession", "cs_lock", "cs_store", "cs_stored",
                  "cs_unlock"}

\* reset_session is called.
RsBegin ==
    /\ sess.pc = "idle"
    /\ sess.resets < MaxResets
    /\ sess' = [sess EXCEPT !.pc = "rs_lock", !.order = <<>>,
                            !.alone = PollSessionOver, !.result = "none",
                            !.resets = @ + 1]
    /\ UNCHANGED <<gw, session_password, reqs>>
    /\ SessKeeps

\* reset_session: _session_password_mutex.lock()
RsLock ==
    /\ sess.pc = "rs_lock"
    /\ can_lock(sess)
    /\ sess' = [sess EXCEPT !.pc = "rs_clear", !.writers = @ \cup {"mon"}]
    /\ UNCHANGED <<gw, session_password, reqs>>
    /\ SessKeeps

\* reset_session with the clear() left out.
RsClearKeepsPassword ==
    /\ sess.pc = "rs_clear"
    /\ sess' = [sess EXCEPT !.pc = "rs_unlock", !.order = Append(@, "clear")]
    /\ UNCHANGED <<gw, session_password, reqs>>
    /\ SessKeeps

\* reset_session: _session_password.clear()
RsClear ==
    /\ sess.pc = "rs_clear"
    /\ session_password' = NO_PASSWORD
    /\ sess' = [sess EXCEPT !.pc = "rs_unlock", !.order = Append(@, "clear")]
    /\ UNCHANGED <<gw, reqs>>
    /\ SessKeeps

\* reset_session: _session_password_mutex.unlock()
RsUnlock ==
    /\ sess.pc = "rs_unlock"
    /\ sess' = [sess EXCEPT !.pc = "rs_offline", !.writers = @ \ {"mon"}]
    /\ UNCHANGED <<gw, session_password, reqs>>
    /\ SessKeeps

\* reset_session: broadcast_is_online(this, false)
RsOffline ==
    /\ sess.pc = "rs_offline"
    /\ \E ok \in StatusChecks :
          /\ ok \in BOOLEAN
          /\ Post("/setonline", FALSE)
    /\ sess' = [sess EXCEPT !.pc = "rs_online",
                            !.order = Append(@, "/setonline false")]
    /\ UNCHANGED <<gw, session_password>>
    /\ SessKeeps

\* reset_session: broadcast_is_online(this, true); create_session follows.
RsOnline ==
    /\ sess.pc = "rs_online"
    /\ \E ok \in StatusChecks :
          /\ ok \in BOOLEAN
          /\ Post("/setonline", TRUE)
    /\ sess' = [sess EXCEPT !.pc = "newsession",
                            !.order = Append(@, "/setonline true")]
    /\ UNCHANGED <<gw, session_password>>
    /\ SessKeeps

\* get_session_password: _session_password_mutex.lock_shared()
RdLock ==
    /\ sess.rd = "idle"
    /\ can_lock_shared(sess)
    /\ sess' = [sess EXCEPT !.rd = "copy", !.readers = @ + 1]
    /\ UNCHANGED <<gw, session_password, reqs>>
    /\ SessKeeps

\* get_session_password: auto password = _session_password;
RdCopy ==
    /\ sess.rd = "copy"
    /\ sess' = [sess EXCEPT !.rd = "unlock", !.read = session_password]
    /\ UNCHANGED <<gw, session_password, reqs>>
    /\ SessKeeps

\* get_session_password: unlock_shared(); return password;
RdUnlock ==
    /\ sess.rd = "unlock"
    /\ sess' = [sess EXCEPT !.rd = "idle", !.readers = @ - 1]
    /\ UNCHANGED <<gw, session_password, reqs>>
    /\ SessKeeps

NextSess ==
    \/ GwOnline
    \/ CsPost
    \/ CsLock
    \/ CsStore
    \/ CsStored
    \/ CsUnlock
    \/ RsBegin
    \/ RsLock
    \/ RsClear
    \/ RsUnlock
    \/ RsOffline
    \/ RsOnline
    \/ RdLock
    \/ RdCopy
    \/ RdUnlock

SpecSess == Init /\ [][NextSess]_vars

\* ------------------------------------------------------------ SpecReq

\* Every request the gateway posts: the poll thread with its whole loop, and
\* reset_session called from another thread between any two of its steps,
\* each call one step.

\* reset_session: the password is cleared, /setonline false, /setonline true
\* and /newsession are posted, and create_session stores the issued password
\* or leaves the cleared one.
ResetSession ==
    /\ sess.pc = "idle"
    /\ sess.resets < MaxResets
    /\ Len(reqs) + 3 <= MaxReqs
    /\ \E res \in Responses :
          LET c == create_session(res)
          IN /\ reqs' = reqs \o <<request("/setonline", FALSE),
                                  request("/setonline", TRUE),
                                  request("/newsession", FALSE)>>
             /\ session_password' =
                    IF c.stored THEN c.password ELSE NO_PASSWORD
             /\ sess' = [sess EXCEPT
                    !.resets = @ + 1,
                    !.pc = IF c.ret = "throw" THEN "terminated" ELSE "idle"]
    /\ UNCHANGED <<gw, gw_running>>
    /\ UNCHANGED <<conc_vars, loops, win, is_on, mode, target_speed, actual_speed,
                   is_running, message_queue, buffer, wire, line_read, last,
                   rx_ev, ret>>

NextReq ==
    \/ GwOnline
    \/ GwCreateSession
    \/ GwTop
    \/ GwFetch
    \/ GwDispatch
    \/ GwBroadcastState
    \/ GwSleep
    \/ GwOffline
    \/ GwStop
    \/ ResetSession

SpecReq == Init /\ [][NextReq]_vars

\* ------------------------------------------------------------ SpecStop

\* The four worker loops and the two destructors, one loop test, one blocking
\* call or one critical section per step. The device is quiet; the console
\* and the remote end supply MaxInputs lines and task-bearing responses in
\* all, and then the console stays open without a line and the remote end
\* answers /fetch without tasks.

MaxInputs == 1

\* The states in which update_loop has returned.
GwExited == {"done", "returned"}

LoopsKeep ==
    UNCHANGED <<conc_vars, gw_vars, sess, win, is_on, mode, target_speed,
                actual_speed, is_running, message_queue, buffer, wire,
                line_read, last, rx_ev, ret>>

\* rx_loop: while (self->_is_running)
RxTop ==
    /\ loops.rx = "top"
    /\ loops' = [loops EXCEPT !.rx = IF is_running THEN "read" ELSE "stopped"]
    /\ LoopsKeep

\* rx_loop: try_read times out on the quiet device, the empty buffer is
\* skipped, the thread sleeps.
RxQuiet ==
    /\ loops.rx = "read"
    /\ wire = <<>>
    /\ buffer = <<>>
    /\ RxFinish("TIMEOUT")
    /\ loops' = [loops EXCEPT !.rx = "top"]
    /\ UNCHANGED <<conc_vars, gw_vars, sess, win, is_on, mode, target_speed,
                   is_running, message_queue, wire, line_read, last, ret>>

\* command_loop: while (self->_is_running), then std::getline blocks.
ConTop ==
    /\ loops.con = "top"
    /\ loops' = [loops EXCEPT !.con = IF is_running THEN "getline"
                                      ELSE "stopped"]
    /\ LoopsKeep

\* command_loop: std::getline returns a line: an empty or unrecognised line
\* and help change nothing, exit and power run their command.
ConLine ==
    /\ loops.con = "getline"
    /\ loops.inputs < MaxInputs
    /\ \E r \in {cmd_help(Cur), cmd_exit(Cur), cmd_power(Cur)} : Apply(r)
    /\ loops' = [loops EXCEPT !.con = "top", !.inputs = @ + 1]
    /\ UNCHANGED <<conc_vars, gw_vars, sess, win, actual_speed, buffer, wire,
                   line_read, last, rx_ev, ret>>

\* update_loop: one /fetch and what the loop makes of its response.
PollFetch ==
    /\ gw.pc = "fetch"
    /\ \E res \in Responses :
          LET f == fetch_result(res)
              tasks == IF f = "dispatch" THEN res.body.tasks ELSE <<>>
          IN /\ tasks # <<>> => loops.inputs < MaxInputs
             /\ loops' = [loops EXCEPT
                    !.inputs = IF tasks # <<>> THEN @ + 1 ELSE @]
             /\ gw' = [gw EXCEPT
                    !.cyc = NoCycle,
                    !.tasks = tasks,
                    !.idx = 1,
                    !.pc = IF f = "continue" THEN "top"
                           ELSE IF f = "throw" THEN "terminated"
                           ELSE IF tasks = <<>> THEN "setstate"
                           ELSE "dispatch"]
    /\ UNCHANGED <<conc_vars, sess, win, actual_speed, is_running, buffer, wire,
                   line_read, last, rx_ev, ret>>
    /\ GwKeepsDevice
    /\ UNCHANGED <<gw_running, session_password, reqs>>

\* update_loop: broadcast_state(self), the answer checked and dropped.
PollBroadcastState ==
    /\ gw.pc = "setstate"
    /\ gw' = [gw EXCEPT !.pc = "sleep"]
    /\ GwKeeps /\ GwKeepsDevice
    /\ UNCHANGED <<gw_running, session_password, reqs>>

\* main returns: ~Gateway has joined the poll thread, ~Server clears
\* _is_running.
StopServer ==
    /\ loops.srv = "alive"
    /\ ~gw_running
    /\ gw.pc \in GwExited
    /\ is_running' = FALSE
    /\ loops' = [loops EXCEPT !.srv = "join_tx"]
    /\ UNCHANGED <<conc_vars, gw_vars, sess, win, is_on, mode, target_speed,
                   actual_speed, message_queue, buffer, wire, line_read,
                   last, rx_ev, ret>>

\* ~Server: _tx_thread.join()
JoinTx ==
    /\ loops.srv = "join_tx"
    /\ tx.pc = "stopped"
    /\ loops' = [loops EXCEPT !.srv = "join_rx"]
    /\ LoopsKeep

\* ~Server: _rx_thread.join()
JoinRx ==
    /\ loops.srv = "join_rx"
    /\ loops.rx = "stopped"
    /\ loops' = [loops EXCEPT !.srv = "join_command"]
    /\ LoopsKeep

\* ~Server: _command_thread.join()
JoinCommand ==
    /\ loops.srv = "join_command"
    /\ loops.con = "stopped"
    /\ loops' = [loops EXCEPT !.srv = "destroyed"]
    /\ LoopsKeep

TxLoop == TxTop \/ TxTest \/ TxPop \/ TxWrite

RxLoop == RxTop \/ RxQuiet

PollLoop ==
    \/ GwOnline
    \/ GwCreateSession
    \/ GwTop
    \/ PollFetch
    \/ GwDispatch
    \/ PollBroadcastState
    \/ GwSleep
    \/ GwOffline

Destructor == JoinTx \/ JoinRx \/ JoinCommand

NextStop ==
    \/ GwOnline
    \/ GwCreateSession
    \/ GwTop
    \/ PollFetch
    \/ GwDispatch
    \/ PollBroadcastState
    \/ GwSleep
    \/ GwOffline
    \/ GwStop
    \/ TxTop
    \/ TxTest
    \/ TxPop
    \/ TxWrite
    \/ RxTop
    \/ RxQuiet
    \/ ConTop
    \/ ConLine
    \/ StopServer
    \/ JoinTx
    \/ JoinRx
    \/ JoinCommand

\* Every thread that can take a step eventually takes one; a line on the
\* console is the user's to give or withhold.
SpecStop ==
    /\ Init
    /\ [][NextStop]_vars
    /\ WF_vars(TxLoop)
    /\ WF_vars(RxLoop)
    /\ WF_vars(ConTop)
    /\ WF_vars(PollLoop)
    /\ WF_vars(Destructor)

\* ------------------------------------------------------------ SpecLive

\* The controller with a device that answers: the mutation operations are
\* issued one at a time, MaxOps of them in all; every transmit iteration
\* writes its command, and the device answers a written ON, OFF, HIGHER,
\* LOWER with the line power_on, power_off, speed_up, speed_down; the receive
\* loop reads each answer as a whole line.

MaxOps == 4

\* The targets set_speed is called with here.
LiveSpeedArgs == {MIN_SPEED, MIN_SPEED + 1, MIN_SPEED + 3}

\* The device's answer to a written command, with its line feed.
Answer(message) ==
    IF message = MESSAGE_ON THEN POWER_ON \o <<LF>>
    ELSE IF message = MESSAGE_OFF THEN POWER_OFF \o <<LF>>
    ELSE IF message = MESSAGE_HIGHER THEN SPEED_UP \o <<LF>>
    ELSE IF message = MESSAGE_LOWER THEN SPEED_DOWN \o <<LF>>
    ELSE <<>>

\* The place of the first line feed on the wire.
FirstLF(w) ==
    CHOOSE i \in 1..Len(w) : w[i] = LF /\ \A j \in 1..(i - 1) : w[j] # LF

LiveCall(r) ==
    /\ loops.inputs < MaxOps
    /\ Apply(r)
    /\ loops' = [loops EXCEPT !.inputs = @ + 1]
    /\ UNCHANGED <<conc_vars, gw_vars, sess, win, actual_speed, buffer, wire,
                   line_read, last, rx_ev, ret>>

LiveSetIsOn == \E on \in BOOLEAN : LiveCall(set_is_on(Cur, on))

LiveSetSpeed == \E speed \in LiveSpeedArgs : LiveCall(set_speed(Cur, speed))

LiveSetMode == \E m \in Modes : LiveCall(set_mode(Cur, m))

\* tx_loop: one iteration that finds the queue non-empty; the write succeeds
\* and the device answers.
LiveTx ==
    /\ is_running
    /\ message_queue # <<>>
    /\ LET r == tx_pop(message_queue)
       IN /\ message_queue' = r.rest
          /\ wire' = wire \o Answer(r.message)
    /\ UNCHANGED <<conc_vars, gw_vars, aux_vars, is_on, mode, target_speed,
                   actual_speed, is_running, buffer, line_read, last, rx_ev,
                   ret>>

\* rx_loop: one iteration that reads a line up to its line feed and
\* classifies it.
LiveRx ==
    /\ is_running
    /\ wire # <<>>
    /\ LET n == FirstLF(wire)
           r == rx_process(actual_speed, SubSeq(wire, 1, n - 1))
       IN /\ actual_speed' = r.actual
          /\ wire' = SubSeq(wire, n + 1, Len(wire))
    /\ UNCHANGED <<conc_vars, gw_vars, aux_vars, is_on, mode, target_speed,
                   is_running, message_queue, buffer, line_read, last, rx_ev,
                   ret>>

NextLive ==
    \/ LiveSetIsOn
    \/ LiveSetSpeed
    \/ LiveSetMode
    \/ LiveTx
    \/ LiveRx

\* The two loops keep running: each takes its next iteration eventually.
SpecLive ==
    /\ Init
    /\ [][NextLive]_vars
    /\ WF_vars(LiveTx)
    /\ WF_vars(LiveRx)

\* ------------------------------------------------------------ SpecFair

\* The operations of SpecConc step by step, without the exit command: the
\* running flag stays set, and tx_loop takes its next step eventually.
NextFair ==
    \/ StartSetIsOn
    \/ StartSetSpeed
    \/ StartSetMode
    \/ StartPower
    \/ PwLoad
    \/ OnLoad
    \/ OnPush
    \/ OnStoreIsOn
    \/ OnStoreTarget
    \/ SpLoad1
    \/ SpLoad2
    \/ SpCmpUp
    \/ SpDiffUp
    \/ SpCmpDown
    \/ SpDiffDown
    \/ SpPush
    \/ SpStore
    \/ MdLoad
    \/ MdStore
    \/ TxTop
    \/ TxTest
    \/ TxPop
    \/ TxWrite

SpecFair == Init /\ [][NextFair]_vars /\ WF_vars(TxLoop)

\* ------------------------------------------------------------ SpecRace

\* set_speed called from two threads: the poll thread dispatches SPEED tasks
\* and the console thread runs higher and lower, every atomic access and
\* critical section one step, MaxCalls operations in all.

\* The speeds a remote SPEED task carries here.
RaceSpeedArgs == {MIN_SPEED + 1, MIN_SPEED + 3}

Other(t) == IF t = "gw" THEN "con" ELSE "gw"

\* Thread t is inside set_speed.
InSetSpeed(t) == thr[t].pc \notin {"idle", "hl_load", "hl_guard"}

\* The window as thread t calls set_speed(speed): a call with is_on true and
\* speed in 1..MAX_SPEED opens a window when the other thread is outside
\* set_speed, and joins the other thread's window when that call is still
\* running alone; any other call leaves no window.
Enter(t, speed) ==
    IF ~is_on \/ speed < 1 \/ speed > MAX_SPEED
    THEN NoWindow
    ELSE IF ~InSetSpeed(Other(t))
    THEN [open |-> TRUE, by |-> t, t0 |-> target_speed,
          mark |-> Len(hist.pushed), calls |-> 1]
    ELSE IF win.open /\ win.by = Other(t) /\ win.calls = 1
    THEN [win EXCEPT !.calls = 2]
    ELSE NoWindow

RaceFrame ==
    UNCHANGED <<actual_speed, buffer, wire, line_read, last, rx_ev, ret,
                gw_vars, sess, loops>>

\* The poll thread dispatches a SPEED task: server.set_speed(speed).
RaceSetSpeed ==
    /\ CanStart("gw")
    /\ \E speed \in RaceSpeedArgs :
          /\ Begin("gw", [IdleThr EXCEPT !.pc = "sp_load1", !.speed = speed])
          /\ win' = Enter("gw", speed)
    /\ UNCHANGED <<is_on, mode, target_speed, is_running, message_queue, lock, tx, hist>>
    /\ RaceFrame

\* command_loop dispatches higher or lower while _is_running.
StartHigher ==
    /\ CanStart("con")
    /\ is_running
    /\ Begin("con", [IdleThr EXCEPT !.pc = "hl_load", !.dir = MESSAGE_HIGHER])
    /\ UNCHANGED <<is_on, mode, target_speed, is_running, message_queue, lock, tx, hist>>
    /\ ConcFrame

StartLower ==
    /\ CanStart("con")
    /\ is_running
    /\ Begin("con", [IdleThr EXCEPT !.pc = "hl_load", !.dir = MESSAGE_LOWER])
    /\ UNCHANGED <<is_on, mode, target_speed, is_running, message_queue, lock, tx, hist>>
    /\ ConcFrame

\* higher, lower: const auto speed = get_target_speed();
HlLoad ==
    \E t \in Threads :
        /\ thr[t].pc = "hl_load"
        /\ SetThr(t, [thr[t] EXCEPT !.pc = "hl_guard", !.speed = target_speed])
        /\ UNCHANGED <<is_on, mode, target_speed, is_running, message_queue, lock, tx, hist>>
        /\ ConcFrame

\* higher: if (!is_on || speed == MAX_SPEED) return; set_speed(speed + 1);
\* lower: if (!is_on || speed == 0) return; set_speed(speed - 1);
HlGuard ==
    \E t \in Threads :
        /\ thr[t].pc = "hl_guard"
        /\ LET up == thr[t].dir = MESSAGE_HIGHER
               limit == IF up THEN MAX_SPEED ELSE 0
               new_speed == IF up THEN thr[t].speed + 1 ELSE thr[t].speed - 1
           IN IF ~is_on \/ thr[t].speed = limit
              THEN /\ SetThr(t, Finish(thr[t]))
                   /\ UNCHANGED win
              ELSE /\ SetThr(t, [thr[t] EXCEPT !.pc = "sp_load1",
                                               !.speed = new_speed,
                                               !.dir = MESSAGE_HIGHER])
                   /\ win' = Enter(t, new_speed)
        /\ UNCHANGED <<is_on, mode, target_speed, is_running, message_queue, lock, tx, hist>>
        /\ RaceFrame

NextRace ==
    \/ RaceSetSpeed
    \/ StartHigher
    \/ StartLower
    \/ HlLoad
    \/ HlGuard
    \/ OnLoad
    \/ OnPush
    \/ OnStoreIsOn
    \/ OnStoreTarget
    \/ SpLoad1
    \/ SpLoad2
    \/ SpCmpUp
    \/ SpDiffUp
    \/ SpCmpDown
    \/ SpDiffDown
    \/ SpPush
    \/ SpStore

SpecRace == Init /\ [][NextRace]_vars

\* ------------------------------------------------------------ SpecSnap

\* broadcast_state load by load: each getter of Server is one atomic load,
\* accepts_commands() is two, and the receive loop and the callers of the
\* mutation operations on other threads run in between.

\* The speeds requested and reported here.
SnapSpeedArgs == {MIN_SPEED, MIN_SPEED + 1, MIN_SPEED + 2}

SnapKeeps ==
    UNCHANGED <<conc_vars, aux_vars, is_on, mode, target_speed, actual_speed,
                is_running, message_queue, buffer, wire, line_read, last,
                rx_ev, ret, gw_running, session_password>>

\* update_loop calls broadcast_state(this): dto::DeviceState state{}.
BsCall ==
    /\ gw.pc \in {"start", "posted"}
    /\ gw' = [gw EXCEPT !.pc = "is_on", !.cyc.snap = NoSnapshot,
                        !.first = "none", !.loaded = 0]
    /\ SnapKeeps /\ UNCHANGED reqs

\* state.is_on = server.is_on()
BsIsOn ==
    /\ gw.pc = "is_on"
    /\ gw' = [gw EXCEPT !.pc = "accepts_first", !.cyc.snap.is_on = is_on]
    /\ SnapKeeps /\ UNCHANGED reqs

\* accepts_commands(): the first of the two atomic loads of
\* actual_speed == target_speed; the order of the operands is unspecified.
BsAcceptsFirst ==
    /\ gw.pc = "accepts_first"
    /\ \E operand \in {"actual_speed", "target_speed"} :
          gw' = [gw EXCEPT !.pc = "accepts_second",
                           !.first = operand,
                           !.loaded = IF operand = "actual_speed"
                                      THEN actual_speed ELSE target_speed]
    /\ SnapKeeps /\ UNCHANGED reqs

\* accepts_commands(): the other load and the comparison;
\* state.accepts_commands is its result.
BsAcceptsSecond ==
    /\ gw.pc = "accepts_second"
    /\ gw' = [gw EXCEPT
           !.pc = "target_speed",
           !.cyc.snap.accepts_commands =
               IF gw.first = "actual_speed"
               THEN gw.loaded = target_speed
               ELSE actual_speed = gw.loaded]
    /\ SnapKeeps /\ UNCHANGED reqs

\* state.target_speed = server.get_target_speed()
BsTargetSpeed ==
    /\ gw.pc = "target_speed"
    /\ gw' = [gw EXCEPT !.pc = "actual_speed",
                        !.cyc.snap.target_speed = target_speed]
    /\ SnapKeeps /\ UNCHANGED reqs

\* state.actual_speed = server.get_actual_speed()
BsActualSpeed ==
    /\ gw.pc = "actual_speed"
    /\ gw' = [gw EXCEPT !.pc = "mode",
                        !.cyc.snap.actual_speed = actual_speed]
    /\ SnapKeeps /\ UNCHANGED reqs

\* state.mode = server.get_mode()
BsMode ==
    /\ gw.pc = "mode"
    /\ gw' = [gw EXCEPT !.pc = "post", !.cyc.snap.mode = mode]
    /\ SnapKeeps /\ UNCHANGED reqs

\* check_status(client.Post("/setstate", ...)): the snapshot is posted, the
\* answer is checked and dropped.
BsPost ==
    /\ gw.pc = "post"
    /\ \E ok \in StatusChecks :
          /\ ok \in BOOLEAN
          /\ Post("/setstate", FALSE)
    /\ gw' = [gw EXCEPT !.pc = "posted"]
    /\ SnapKeeps

\* The mutation operations called from another thread (console, monitor).
SnapSetIsOn == DevSetIsOn

SnapSetSpeed == \E speed \in SnapSpeedArgs : DevCall(set_speed(Cur, speed))

\* rx_loop: one whole line read up to its line feed and classified.
SnapFeedback ==
    \E l \in DevLines :
        LET r == rx_process(actual_speed, l)
        IN /\ r.actual \in SnapSpeedArgs
           /\ actual_speed' = r.actual
           /\ ret' = NoRet
           /\ UNCHANGED <<conc_vars, gw_vars, aux_vars, is_on, mode,
                          target_speed, is_running, message_queue, buffer,
                          wire, line_read, last, rx_ev>>

NextSnap ==
    \/ BsCall
    \/ BsIsOn
    \/ BsAcceptsFirst
    \/ BsAcceptsSecond
    \/ BsTargetSpeed
    \/ BsActualSpeed
    \/ BsMode
    \/ BsPost
    \/ SnapSetIsOn
    \/ SnapSetSpeed
    \/ SnapFeedback
    \/ TxIteration

SpecSnap == Init /\ [][NextSnap]_vars

\* ------------------------------------------------------------ SpecIn

\* Spec with set_speed called with targets in [MIN_SPEED, MAX_SPEED] only.
SetSpeedInRange ==
    \E speed \in MIN_SPEED..MAX_SPEED :
        Call("set_speed", speed, set_speed(Cur, speed))

NextIn ==
    \/ SetIsOn
    \/ SetSpeedInRange
    \/ SetMode
    \/ CmdHelp
    \/ CmdExit
    \/ CmdPower
    \/ CmdMode
    \/ CmdLower
    \/ CmdHigher
    \/ TxIteration

SpecIn == Init /\ [][NextIn]_vars

\* ------------------------------------------------------------ SpecCon

\* The console commands alone: no remote task, no monitor.
NextCon ==
    \/ CmdHelp
    \/ CmdExit
    \/ CmdPower
    \/ CmdMode
    \/ CmdLower
    \/ CmdHigher
    \/ TxIteration

SpecCon == Init /\ [][NextCon]_vars

\* ------------------------------------------------------------ SpecExit

\* The poll thread of SpecGw beside the console's exit command and the
\* transmit loop: main waits for the server's running flag to clear and only
\* then destroys the gateway.

\* main: while (server.is_running()) yield; then return 0 runs ~Gateway.
MainReturns == ~is_running /\ GwStop

NextExit ==
    \/ GwOnline
    \/ GwCreateSession
    \/ GwTop
    \/ GwFetch
    \/ GwDispatch
    \/ GwBroadcastState
    \/ GwSleep
    \/ GwOffline
    \/ MainReturns
    \/ CmdExit
    \/ TxIteration

SpecExit == Init /\ [][NextExit]_vars

\* ------------------------------------------------------------ claims (Spec)

\* C1: set_speed(t), t in 1..MAX_SPEED, called with is_on false and
\* target_speed 0 pushes exactly ON followed by t-1 HIGHER and leaves is_on true
\* and target_speed = t; for t = 4 the pushed sequence is [ON, HIGHER, HIGHER,
\* HIGHER].
C1_SetSpeedFromOff ==
    (/\ last.op = "set_speed"
     /\ ~last.pre_on
     /\ last.pre_target = 0
     /\ last.arg \in 1..MAX_SPEED)
    => /\ last.pushed = <<MESSAGE_ON>> \o Rep(MESSAGE_HIGHER, last.arg - 1)
       /\ is_on
       /\ target_speed = last.arg
       /\ last.arg = 4 =>
             last.pushed = <<MESSAGE_ON, MESSAGE_HIGHER, MESSAGE_HIGHER, MESSAGE_HIGHER>>

C1_Witness ==
    /\ last.op = "set_speed"
    /\ ~last.pre_on
    /\ last.pre_target = 0
    /\ last.arg = 4
    /\ Len(last.pushed) = 4
    /\ target_speed = 4

\* C2: set_speed(t), t in 1..MAX_SPEED, called with is_on true pushes exactly
\* |t - target_speed| step commands and nothing else, HIGHER when t is above the
\* old target, LOWER when below, none when equal, and leaves target_speed = t.
C2_SetSpeedSteps ==
    (/\ last.op = "set_speed"
     /\ last.pre_on
     /\ last.arg \in 1..MAX_SPEED)
    => /\ last.pushed =
             IF last.arg > last.pre_target
             THEN Rep(MESSAGE_HIGHER, last.arg - last.pre_target)
             ELSE Rep(MESSAGE_LOWER, last.pre_target - last.arg)
       /\ target_speed = last.arg

C2_Witness ==
    /\ last.op = "set_speed"
    /\ last.pre_on
    /\ last.pre_target = MAX_SPEED
    /\ last.arg = 2
    /\ last.pushed = Rep(MESSAGE_LOWER, MAX_SPEED - 2)
    /\ target_speed = 2

\* C3: set_is_on(x) with is_on already x pushes nothing and leaves is_on and
\* target_speed alone; otherwise it pushes exactly one command (ON for true, OFF
\* for false), sets is_on = x and target_speed to 1 (on) or 0 (off). Either way
\* is_on = x afterwards, so a second set_is_on(x) in succession is the first case.
C3_SetIsOn ==
    last.op = "set_is_on"
    => /\ is_on = last.arg
       /\ IF last.pre_on = last.arg
          THEN /\ last.pushed = <<>>
               /\ target_speed = last.pre_target
          ELSE /\ last.pushed = <<IF last.arg THEN MESSAGE_ON ELSE MESSAGE_OFF>>
               /\ target_speed = IF last.arg THEN 1 ELSE 0

C3_Witness ==
    /\ last.op = "set_is_on"
    /\ last.arg = TRUE
    /\ last.pre_on = TRUE
    /\ last.pre_target > 1
    /\ last.pushed = <<>>
    /\ is_on

\* C4: set_speed(0) called with is_on true and target_speed in 1..MAX_SPEED
\* pushes exactly one OFF and no step command and leaves is_on false and
\* target_speed 0.
C4_SetSpeedZero ==
    (/\ last.op = "set_speed"
     /\ last.arg = 0
     /\ last.pre_on
     /\ last.pre_target \in 1..MAX_SPEED)
    => /\ last.pushed = <<MESSAGE_OFF>>
       /\ ~is_on
       /\ target_speed = 0

C4_Witness ==
    /\ last.op = "set_speed"
    /\ last.arg = 0
    /\ last.pre_on
    /\ last.pre_target = MAX_SPEED
    /\ last.pushed = <<MESSAGE_OFF>>
    /\ ~is_on

\* C5: target_speed is within [MIN_SPEED, MAX_SPEED] in every reachable state.
C5_TargetInRange == target_speed \in MIN_SPEED..MAX_SPEED

\* C11: set_mode(m) called with is_on false leaves mode, is_on and target_speed
\* unchanged and pushes nothing; called with is_on true it sets mode = m, also
\* when m is the current mode, and changes nothing else.
C11_SetMode ==
    last.op = "set_mode"
    => /\ mode = IF last.pre_on THEN last.arg ELSE last.pre_mode
       /\ is_on = last.pre_on
       /\ target_speed = last.pre_target
       /\ last.pushed = <<>>

C11_Witness ==
    /\ last.op = "set_mode"
    /\ ~last.pre_on
    /\ last.pre_mode = MODE_OTHER
    /\ last.arg = MODE_DEFAULT
    /\ mode = MODE_OTHER

\* The step commands among the commands the last call pushed.
StepsPushed ==
    {i \in 1..Len(last.pushed) :
        last.pushed[i] \in {MESSAGE_HIGHER, MESSAGE_LOWER}}

\* C33: a call of set_is_on, set_speed (any integer target) or a console
\* command that enqueues HIGHER or LOWER does so while is_on is true.
C33_StepsOnlyWhileOn == StepsPushed # {} => is_on

\* C35: set_mode and the console's mode command push nothing, with is_on
\* true or false, and the queue the transmit loop writes from never holds
\* the MODE opcode.
C35_ModeNeverPushed ==
    /\ \A i \in 1..Len(message_queue) : message_queue[i] # MESSAGE_MODE
    /\ last.op \in {"set_mode", "mode"} => last.pushed = <<>>

C35_Witness ==
    /\ last.op = "set_mode"
    /\ last.pre_on
    /\ last.pre_mode = MODE_DEFAULT
    /\ last.arg = MODE_OTHER
    /\ mode = MODE_OTHER
    /\ last.pushed = <<>>
    /\ message_queue # <<>>

\* ------------------------------------------------------------ claims (SpecConc)

\* C12: in every interleaving of set_mode with set_is_on, set_speed and the
\* console's exit on another thread, mode is never stored at a moment when
\* is_on is false.
C12_ModeOnlyWhileOn == ~hist.mode_off_write

\* The command tx_loop has popped and not yet handed to write.
InFlight == IF tx.pc = "write" THEN <<tx.message>> ELSE <<>>

\* C13: the bytes tx_loop has attempted to write are at every moment a prefix
\* of the commands pushed, in push order, and what follows that prefix is the
\* popped command, if any, and then the queue: nothing is reordered, merged,
\* duplicated or skipped, whichever threads push.
C13_TxPrefix == hist.pushed = hist.attempted \o InFlight \o message_queue

C13_Witness ==
    /\ Len(hist.attempted) >= 2
    /\ hist.attempted[1] # hist.attempted[2]
    /\ message_queue # <<>>
    /\ thr["gw"].pc = "sp_store"
    /\ thr["con"].pc = "on_store"

\* C14: after a failed write the command is gone from the queue and is not
\* attempted again, the queue and is_on, mode, target_speed, actual_speed are
\* as the attempt found them, and the commands still to be attempted are the
\* pushed ones after the failed one, in order.
C14_WriteFailure ==
    (hist.tx_ev.written /\ ~hist.tx_ev.ok)
    => /\ hist.tx_ev.kept
       /\ hist.attempted[Len(hist.attempted)] = hist.tx_ev.msg
       /\ hist.pushed = hist.attempted \o InFlight \o message_queue

C14_Witness ==
    /\ hist.tx_ev.written
    /\ ~hist.tx_ev.ok
    /\ hist.tx_ev.msg = MESSAGE_ON
    /\ tx.pc = "write"
    /\ tx.message = MESSAGE_HIGHER
    /\ is_on

\* C15: when exit runs with is_on true, its OFF is pushed and is_on stored
\* false before _is_running is cleared, and once tx_loop has stopped that OFF
\* has been handed to write.
C15_ExitDrainsOff ==
    /\ hist.off_before_stop
    /\ (tx.pc = "stopped" /\ hist.exit_off > 0)
         => Len(hist.attempted) >= hist.exit_off

\* C28: set_is_on(true) called concurrently from two threads while is_on is
\* false enqueues exactly one ON for that off-to-on transition: as long as no
\* OFF has been pushed, at most one ON has been pushed.
C28_OneOnPerTransition ==
    (\A i \in 1..Len(hist.pushed) : hist.pushed[i] # MESSAGE_OFF)
    => Cardinality({i \in 1..Len(hist.pushed) :
                       hist.pushed[i] = MESSAGE_ON}) <= 1

\* C30: tx_loop never reads front() or pops on an empty queue: between its
\* emptiness test and its pop, which are separate critical sections, no other
\* thread removes an element, whatever the producers do in between.
C30_NoEmptyPop ==
    /\ tx.pc # "undefined"
    /\ tx.pc = "pop" => message_queue # <<>>

\* tx_loop is between its test and its pop with one command queued, and both
\* calling threads are about to push.
C30_Witness ==
    /\ tx.pc = "pop"
    /\ Len(message_queue) = 1
    /\ thr["gw"].pc = "sp_push"
    /\ thr["con"].pc = "on_push"

\* ------------------------------------------------------------ claims (SpecGw)

PathsPosted == {reqs[i].path : i \in 1..Len(reqs)}

\* A /fetch response that is absent, or not 200, or 200 with a decodable body
\* that holds no tasks array.
SkippedFetch(res) ==
    \/ ~res.present
    \/ res.status # STATUS_OK
    \/ /\ res.body.json
       /\ ~(res.body.object /\ "tasks" \in res.body.keys /\ res.body.tasks_array)

C17_NoAbnormalTermination ==
    ~(gw.pc = "terminated" /\ gw.cyc.fetched)

\* The response to /newsession that creates a session.
SessionCreated(res) ==
    /\ res.present
    /\ res.status = STATUS_OK
    /\ res.body.json
    /\ "password" \in res.body.keys
    /\ res.body.password_string

\* C18: the first request is /setonline with is_online true, the second is
\* /newsession; a /fetch is posted only after /newsession succeeded and its
\* password was stored; if session creation fails there is never a /fetch, a
\* dispatched task or a /setstate.
C18_StartupOrder ==
    /\ Len(reqs) >= 1 => (reqs[1].path = "/setonline" /\ reqs[1].is_online)
    /\ Len(reqs) >= 2 => reqs[2].path = "/newsession"
    /\ \A i \in 1..Len(reqs) :
          reqs[i].path \in {"/fetch", "/setstate"} =>
              /\ i > 2
              /\ SessionCreated(gw.session_res)
              /\ session_password = gw.session_res.body.password
    /\ (Len(reqs) >= 2 /\ ~SessionCreated(gw.session_res)) =>
          /\ PathsPosted \cap {"/fetch", "/setstate"} = {}
          /\ ~gw.cyc.fetched
          /\ gw.cyc.trace = <<>>
          /\ DeviceState = NoDevice
          /\ message_queue = <<>>

\* The session password "s2" was issued and stored, and a /fetch followed.
C18_Witness ==
    /\ Len(reqs) >= 3
    /\ reqs[3].path = "/fetch"
    /\ session_password = "s2"
    /\ gw.session_res.body = PasswordBody("s2")

Offlines ==
    {i \in 1..Len(reqs) : reqs[i].path = "/setonline" /\ ~reqs[i].is_online}

Onlines ==
    {i \in 1..Len(reqs) : reqs[i].path = "/setonline" /\ reqs[i].is_online}

\* C19: a poll thread that has ended, having broadcast online = true, has
\* posted exactly one /setonline with is_online false.
C19_OfflineOnExit ==
    (gw.pc \in {"returned", "done"} /\ Onlines # {}) =>
        Cardinality(Offlines) = 1

\* A /fetch response with status 200 and a tasks array.
WellFormedFetch(res) ==
    /\ res.present
    /\ res.status = STATUS_OK
    /\ res.body.json
    /\ res.body.object
    /\ "tasks" \in res.body.keys
    /\ res.body.tasks_array

\* The operation a task of each type goes to.
OperationOf(task) ==
    CASE task.type = "POWER" -> "set_is_on"
      [] task.type = "SPEED" -> "set_speed"
      [] task.type = "MODE" -> "set_mode"

ApplyTask(s, task) ==
    CASE task.type = "POWER" -> set_is_on(s, task.is_on)
      [] task.type = "SPEED" -> set_speed(s, task.speed)
      [] task.type = "MODE" -> set_mode(s, task.mode)

RECURSIVE ApplyTasks(_, _)
ApplyTasks(s, ts) ==
    IF ts = <<>> THEN s ELSE ApplyTasks(ApplyTask(s, Head(ts)), Tail(ts))

\* What a whole cycle does, in order: one call per task, /setstate, sleep.
CycleOf(ts) ==
    [i \in 1..Len(ts) |->
        [ev |-> OperationOf(ts[i]), dto |-> deserialize(ts[i])]]
        \o <<[ev |-> "/setstate", dto |-> NoDto], [ev |-> "sleep", dto |-> NoDto]>>

IsPrefix(a, b) == Len(a) <= Len(b) /\ a = SubSeq(b, 1, Len(a))

\* The device state the tasks ts lead to from the state pre.
AfterTasks(pre, ts) ==
    ApplyTasks([is_on |-> pre.is_on, mode |-> pre.mode,
                target_speed |-> pre.target_speed, is_running |-> TRUE,
                pushed |-> <<>>], ts)

\* C20: in a poll cycle whose /fetch returns 200 with a tasks array, what the
\* thread does is at every moment a prefix of: one call per task, in array
\* order, POWER to set_is_on, SPEED to set_speed, MODE to set_mode, each with
\* the task's payload, then one /setstate, then the sleep; the snapshot posted
\* is the state after all the tasks; the thread is back at the loop test only
\* after all of it.
C20_DispatchInOrder ==
    (gw.cyc.fetched /\ WellFormedFetch(gw.cyc.response)) =>
        LET ts == gw.cyc.response.body.tasks
            after == AfterTasks(gw.cyc.pre, ts)
        IN /\ IsPrefix(gw.cyc.trace, CycleOf(ts))
           /\ gw.pc \in {"top", "fetch", "offline", "done"} =>
                  gw.cyc.trace = CycleOf(ts)
           /\ Len(gw.cyc.trace) > Len(ts) =>
                  /\ gw.cyc.snap.is_on = after.is_on
                  /\ gw.cyc.snap.target_speed = after.target_speed
                  /\ gw.cyc.snap.mode = after.mode
                  /\ reqs[Len(reqs)].path \in {"/setstate", "/setonline"}
           /\ Len(gw.cyc.trace) <= Len(ts) => reqs[Len(reqs)].path = "/fetch"

\* A finished cycle of two tasks, SPEED 2 then MODE, from a powered-off device.
C20_Witness ==
    /\ gw.cyc.fetched
    /\ gw.cyc.response.status = STATUS_OK
    /\ gw.cyc.response.body.tasks =
           <<Task("SPEED", FALSE, MIN_SPEED + 2, MODE_DEFAULT),
             Task("MODE", FALSE, 0, MODE_OTHER)>>
    /\ ~gw.cyc.pre.is_on
    /\ gw.pc = "top"
    /\ Len(gw.cyc.trace) = 4
    /\ mode = MODE_OTHER
    /\ target_speed = MIN_SPEED + 2

\* ------------------------------------------------------------ claims (SpecSess, SpecReq)

\* The steps of reset_session, in order.
ResetOrder == <<"clear", "/setonline false", "/setonline true", "/newsession">>

\* C21: reset_session clears the session password, posts /setonline false,
\* posts /setonline true and posts /newsession, in this order; when it has
\* returned, having begun with the poll thread's create_session over, the
\* session password is the one that /newsession issued, or empty when session
\* creation failed.
C21_ResetSession ==
    /\ sess.resets > 0 => IsPrefix(sess.order, ResetOrder)
    /\ (sess.resets > 0 /\ sess.pc = "idle") =>
          /\ sess.order = ResetOrder
          /\ sess.result \in {"true", "false"}
          /\ (sess.alone /\ sess.result = "true") =>
                 session_password = sess.issued["mon"]
          /\ (sess.alone /\ sess.result = "false") =>
                 session_password = NO_PASSWORD

\* A reset that failed to create a session after the poll thread had stored
\* one: the password is empty.
C21_Witness ==
    /\ sess.resets > 0
    /\ sess.pc = "idle"
    /\ sess.alone
    /\ sess.result = "false"
    /\ "s1" \in sess.held
    /\ session_password = NO_PASSWORD
    /\ gw.pc = "top"

\* C22: two writers never hold the session password's lock together, no
\* reader holds it while a writer does, and get_session_password returns a
\* value the password held in full: empty, or a password that was issued and
\* completely stored.
C22_SessionLock ==
    /\ Cardinality(sess.writers) <= 1
    /\ sess.writers # {} => sess.readers = 0
    /\ sess.read \in sess.held
    /\ sess.rd = "copy" => session_password \in sess.held

\* A reader waiting while reset_session's create_session is in the middle of
\* its assignment, and having read the previous password before.
C22_Witness ==
    /\ sess.pc = "cs_stored"
    /\ session_password = TORN
    /\ sess.rd = "idle"
    /\ sess.read = "s1"
    /\ sess.issued["mon"] = "s2"

\* C23: every request posted carries the configured shared password, never the
\* session password or an empty one, whatever the session password is.
C23_SharedPassword ==
    \A i \in 1..Len(reqs) :
        /\ reqs[i].password = PASSWORD
        /\ reqs[i].password \notin Passwords \cup {NO_PASSWORD, TORN}

\* A reset_session that failed to create a session has left the session
\* password empty, and the poll thread has posted a /fetch and a /setstate
\* since.
C23_Witness ==
    /\ sess.resets > 0
    /\ session_password = NO_PASSWORD
    /\ SessionCreated(gw.session_res)
    /\ Len(reqs) = MaxReqs
    /\ reqs[Len(reqs) - 1].path = "/newsession"
    /\ reqs[Len(reqs)].path = "/fetch"

\* ------------------------------------------------------------ claims (SpecStop)

\* C24: once a running flag is cleared, each worker loop observes it and
\* exits, so the joins of the destructors return: the transmit, receive and
\* console loops after Server::_is_running is cleared, the poll loop after
\* Gateway::_is_running is cleared, and ~Server, once begun, completes.
C24_ShutdownTerminates ==
    /\ ~is_running ~> (tx.pc = "stopped" /\ loops.rx = "stopped"
                           /\ loops.con = "stopped")
    /\ ~gw_running ~> gw.pc \in GwExited \cup {"terminated"}
    /\ loops.srv = "join_tx" ~> loops.srv = "destroyed"

\* ------------------------------------------------------------ claims (SpecLive)

\* C25: with a device that answers every written command, no write failure
\* and mutation operations with targets in [0, 32] issued one at a time, once
\* no further mutation is issued actual_speed eventually equals target_speed
\* (accepts_commands() is true) and stays equal.
C25_Convergence == <>[](accepts_commands(DeviceState))

\* Every operation of the budget has been issued, the last target is three
\* steps above zero, and the device has answered every command.
C25_Witness ==
    /\ loops.inputs = MaxOps
    /\ message_queue = <<>>
    /\ wire = <<>>
    /\ is_on
    /\ target_speed = MIN_SPEED + 3
    /\ actual_speed = MIN_SPEED + 3

\* ------------------------------------------------------------ claims (SpecFair)

\* C27: while the running flag stays set, every command pushed is eventually
\* popped and attempted on the serial link, exactly once and in push order,
\* one command per transmit-loop iteration.
C27_EventuallyAttempted ==
    /\ [](is_running /\ IsPrefix(hist.attempted, hist.pushed))
    /\ []<>(hist.attempted = hist.pushed)
    /\ [][Len(hist.attempted') <= Len(hist.attempted) + 1]_vars

\* Every operation of the budget has pushed, from both threads, and every
\* command has been attempted.
C27_Witness ==
    /\ Calls = MaxCalls
    /\ thr["gw"].calls > 0
    /\ thr["con"].calls > 0
    /\ Len(hist.pushed) >= 4
    /\ hist.attempted = hist.pushed
    /\ tx.pc = "top"

\* ------------------------------------------------------------ claims (SpecRace)

Count(seq, c) == Cardinality({i \in 1..Len(seq) : seq[i] = c})

\* C29: when two set_speed calls with targets in 1..32 have run concurrently
\* on the two threads with is_on true and both have returned, target_speed
\* minus the target_speed before both calls equals the HIGHER pushed minus
\* the LOWER pushed by the two calls.
C29_SpeedConservation ==
    (/\ win.open
     /\ win.calls = 2
     /\ thr["gw"].pc = "idle"
     /\ thr["con"].pc = "idle")
    => LET since == SubSeq(hist.pushed, win.mark + 1, Len(hist.pushed))
       IN target_speed - win.t0 =
              Count(since, MESSAGE_HIGHER) - Count(since, MESSAGE_LOWER)

\* ------------------------------------------------------------ claims (SpecRx)

\* C6: actual_speed is within [MIN_SPEED, MAX_SPEED] in every reachable state,
\* whatever feedback lines the device sends.
C6_ActualInRange == actual_speed \in MIN_SPEED..MAX_SPEED

\* The text of a received line as the protocol defines it: the bytes before the
\* line feed, less one trailing carriage return.
LineText(b) ==
    IF b # <<>> /\ b[Len(b)] = CR THEN SubSeq(b, 1, Len(b) - 1) ELSE b

\* C8: for every line the loop has read up to its line feed, with text t after
\* stripping one trailing carriage return: power_on sets actual_speed to 1,
\* power_off to 0, speed_up increments it, speed_down decrements it, any other
\* text leaves it unchanged (CRLF and LF termination give the same text, hence
\* the same effect).
C8_Classification ==
    (rx_ev.term = "LF" /\ rx_ev.buf # <<>>)
    => LET t == LineText(rx_ev.buf)
       IN actual_speed =
             IF t = POWER_ON THEN 1
             ELSE IF t = POWER_OFF THEN 0
             ELSE IF t = SPEED_UP THEN rx_ev.before + 1
             ELSE IF t = SPEED_DOWN THEN rx_ev.before - 1
             ELSE rx_ev.before

\* C9: a line is classified only once its line feed has been read: an iteration
\* ended by a read timeout changes no state, and the buffer classified at a line
\* feed holds every byte read since the previous line feed.
C9_OnlyAtTerminator ==
    /\ rx_ev.term = "TIMEOUT" => actual_speed = rx_ev.before
    /\ rx_ev.term = "LF" => rx_ev.buf = rx_ev.line

\* C10: an empty line, a lone line feed or a lone carriage return followed by a
\* line feed, changes no state and produces no log entry.
C10_EmptyLine ==
    (rx_ev.term = "LF" /\ rx_ev.buf \in {<<>>, <<CR>>})
    => (~rx_ev.logged /\ actual_speed = rx_ev.before)

\* ------------------------------------------------------------ claims (SpecOwn)

\* C26: the receive loop writes only actual_speed, never is_on, target_speed,
\* mode or the command queue; set_is_on, set_speed, set_mode and the console
\* commands never write actual_speed.
C26_FieldOwnership ==
    [][/\ DevFeedback =>
              UNCHANGED <<is_on, target_speed, mode, message_queue>>
       /\ (DevSetIsOn \/ DevSetSpeed \/ DevSetMode \/ DevConsole) =>
              UNCHANGED actual_speed]_vars

\* Feedback has moved actual_speed and the mutators have moved every field of
\* theirs, the two sides apart by more than one step.
C26_Witness ==
    /\ actual_speed = 2
    /\ is_on
    /\ target_speed = MAX_SPEED
    /\ mode = MODE_OTHER
    /\ message_queue # <<>>

\* ------------------------------------------------------------ claims (SpecDev)

\* C7: accepts_commands() returns false if and only if actual_speed differs
\* from target_speed at the call, and the DeviceState after the call is the
\* DeviceState before it.
C7_AcceptsCommands ==
    ret.called
    => /\ (ret.val = FALSE) <=> (actual_speed # target_speed)
       /\ DeviceState = ret.pre

C7_Witness ==
    /\ ret.called
    /\ ret.val = FALSE
    /\ actual_speed > target_speed
    /\ is_on

\* ------------------------------------------------------------ claims (SpecSnap)

\* The snapshot just posted to /setstate.
Posted == gw.pc = "posted"

\* C31: every snapshot posted to /setstate has its accepts_commands field
\* equal to (its target_speed field = its actual_speed field), whatever the
\* receive loop and the mutation operations did during broadcast_state.
C31_SnapshotConsistent ==
    Posted => gw.cyc.snap.accepts_commands
                  = (gw.cyc.snap.target_speed = gw.cyc.snap.actual_speed)

\* ------------------------------------------------------------ claims (SpecIn)

\* C32: between operations, after any sequence of set_is_on, set_speed with
\* targets in [0, 32], set_mode and console commands, the device is off
\* with target_speed 0 or on with target_speed at least 1.
C32_PowerTargetCoupling ==
    /\ ~is_on => target_speed = 0
    /\ is_on => target_speed >= 1

\* ------------------------------------------------------------ claims (SpecExit)

\* C34: once exit has cleared the running flag, no step pushes a command
\* and none changes is_on, target_speed or mode, the poll loop's dispatch
\* of fetched tasks included.
C34_QuietAfterExit ==
    [][~is_running =>
          /\ UNCHANGED <<is_on, target_speed, mode>>
          /\ Len(message_queue') <= Len(message_queue)]_vars

\* ------------------------------------------------------------ claims (SpecCon)

\* The last command changed nothing and pushed nothing.
LastDidNothing ==
    /\ is_on = last.pre_on
    /\ target_speed = last.pre_target
    /\ mode = last.pre_mode
    /\ last.pushed = <<>>

\* C36: higher does nothing when the device is off or target_speed is 32
\* and otherwise steps the target up by one; lower does nothing when the
\* device is off or target_speed is 0, powers the device off with one OFF
\* and no LOWER at target_speed 1, and otherwise steps the target down by
\* one; console commands alone keep target_speed within [0, 32].
C36_ConsoleSpeedGuards ==
    /\ target_speed \in MIN_SPEED..MAX_SPEED
    /\ last.op = "higher" =>
          IF ~last.pre_on \/ last.pre_target = MAX_SPEED
          THEN LastDidNothing
          ELSE /\ target_speed = last.pre_target + 1
               /\ last.pushed = <<MESSAGE_HIGHER>>
               /\ is_on
    /\ last.op = "lower" =>
          IF ~last.pre_on \/ last.pre_target = 0
          THEN LastDidNothing
          ELSE IF last.pre_target = 1
          THEN /\ last.pushed = <<MESSAGE_OFF>>
               /\ ~is_on
               /\ target_speed = 0
          ELSE /\ target_speed = last.pre_target - 1
               /\ last.pushed = <<MESSAGE_LOWER>>
               /\ is_on

C36_Witness ==
    /\ last.op = "lower"
    /\ last.pre_on
    /\ last.pre_target = 1
    /\ last.pushed = <<MESSAGE_OFF>>
    /\ ~is_on
    /\ target_speed = 0

====
